---- MODULE Spec2Model ----
(***************************************************************************)
(* Legal Intel Dashboard: the metadata extractor and the query service.    *)
(*                                                                         *)
(* Both services have an AI path (one call to an external chat-completion  *)
(* endpoint) and a keyword fallback path.  The model keeps Python's        *)
(* strings as TLA+ strings, Optional[str] as a sequence of length 0 or 1,  *)
(* and the float confidences 0.85 / 0.6 in hundredths.                     *)
(***************************************************************************)
EXTENDS Integers, Sequences, FiniteSets, TLC

VARIABLES
    openai_api_key,     \* settings.openai_api_key
    extractor_client,   \* MetadataExtractor.client
    query_client,       \* QueryService.client
    db,                 \* rows of the documents table, in id order
    x,                  \* the extract_metadata invocation in progress or last returned
    q,                  \* the process_query invocation in progress or last returned
    total_ai_calls,     \* external chat-completion requests issued since start-up
    prev,               \* history: the process_query call returned before the one in q
    vf,                 \* the DocumentProcessor.validate_file invocation last made
    disk,               \* the files of settings.upload_dir
    bg,                 \* the background tasks scheduled, in order: where each is
    up,                 \* the upload request last answered
    runs                \* the locals of each background task: text, metadata call

vars == <<openai_api_key, extractor_client, query_client, db, x, q, total_ai_calls,
         prev, vf, disk, bg, up, runs>>

\* the state of the HTTP layer and of the file store
apiVars == <<vf, disk, bg, up, runs>>

(***************************************************************************)
(* Python values                                                           *)
(***************************************************************************)

\* Optional[str]: None
None == <<>>

\* Optional[str]: a string value
Some(s) == <<s>>

\* Python truthiness of an Optional[str]: None and "" are falsy
Truthy(o) == o /= None /\ o[1] /= ""

\* the characters str.lower() changes (ASCII) and what it changes them to
LowerOf == [c \in {"A", "B", "C", "D", "E", "F", "G", "H", "I", "J", "K", "L", "M",
                   "N", "O", "P", "Q", "R", "S", "T", "U", "V", "W", "X", "Y", "Z"} |->
    CASE c = "A" -> "a" [] c = "B" -> "b" [] c = "C" -> "c" [] c = "D" -> "d"
      [] c = "E" -> "e" [] c = "F" -> "f" [] c = "G" -> "g" [] c = "H" -> "h"
      [] c = "I" -> "i" [] c = "J" -> "j" [] c = "K" -> "k" [] c = "L" -> "l"
      [] c = "M" -> "m" [] c = "N" -> "n" [] c = "O" -> "o" [] c = "P" -> "p"
      [] c = "Q" -> "q" [] c = "R" -> "r" [] c = "S" -> "s" [] c = "T" -> "t"
      [] c = "U" -> "u" [] c = "V" -> "v" [] c = "W" -> "w" [] c = "X" -> "x"
      [] c = "Y" -> "y" [] c = "Z" -> "z"]

LowerChar(c) == IF c \in DOMAIN LowerOf THEN LowerOf[c] ELSE c

RECURSIVE Lower(_)
\* str.lower(), by halves so that long documents do not nest deeply
Lower(s) ==
    IF Len(s) = 0 THEN s
    ELSE IF Len(s) = 1 THEN LowerChar(s)
    ELSE LET h == Len(s) \div 2
         IN Lower(SubSeq(s, 1, h)) \o Lower(SubSeq(s, h + 1, Len(s)))

\* Python `kw in text` on strings: substring search
Contains(kw, text) ==
    \E i \in 1..(Len(text) - Len(kw) + 1) : SubSeq(text, i, i + Len(kw) - 1) = kw

\* any(keyword in text for keyword in keywords), in list order
AnyKeywordIn(keywords, text) ==
    \E i \in 1..Len(keywords) : Contains(keywords[i], text)

\* s[:n]
Prefix(s, n) == IF Len(s) > n THEN SubSeq(s, 1, n) ELSE s

RECURSIVE Rep(_, _)
\* s * n
Rep(s, n) ==
    IF n = 0 THEN ""
    ELSE IF n % 2 = 1 THEN s \o Rep(s, n - 1)
    ELSE LET h == Rep(s, n \div 2) IN h \o h

\* A document text is written as [pad, body]: pad blanks followed by body.
\* Text(t) is the string itself, which is what every operation works on.
Text(t) == Rep(" ", t.pad) \o t.body

(***************************************************************************)
(* MetadataExtractor: the keyword tables, in the order the dicts are       *)
(* written (a Python dict iterates in insertion order)                     *)
(***************************************************************************)

agreement_patterns == <<
    <<"NDA", <<"non-disclosure", "confidentiality", "nda">> >>,
    <<"MSA", <<"master service", "msa", "master agreement">> >>,
    <<"Service Agreement", <<"service agreement", "services agreement">> >>,
    <<"Employment Contract", <<"employment", "employee", "employment agreement">> >>,
    <<"Franchise Agreement", <<"franchise", "franchisee", "franchisor">> >>,
    <<"Licensing Agreement", <<"license", "licensing", "licensed">> >>,
    <<"Supply Agreement", <<"supply", "supplier", "procurement">> >>,
    <<"Partnership Agreement", <<"partnership", "partner", "joint venture">> >> >>

law_patterns == <<
    <<"UAE", <<"uae", "united arab emirates", "dubai", "abu dhabi">> >>,
    <<"UK", <<"england", "wales", "united kingdom", "english law">> >>,
    <<"Delaware", <<"delaware", "delaware law">> >>,
    <<"New York", <<"new york", "ny law", "new york law">> >>,
    <<"California", <<"california", "california law", "ca law">> >>,
    <<"Singapore", <<"singapore", "singapore law">> >>,
    <<"Germany", <<"germany", "german law", "deutschland">> >> >>

geo_patterns == <<
    <<"Middle East", <<"middle east", "gulf", "gcc", "arab">> >>,
    <<"Europe", <<"europe", "european", "eu">> >>,
    <<"North America", <<"north america", "usa", "canada", "united states">> >>,
    <<"Asia-Pacific", <<"asia", "pacific", "apac", "asian">> >> >>

industry_patterns == <<
    <<"Technology", <<"software", "technology", "tech", "digital", "it", "saas">> >>,
    <<"Oil & Gas", <<"oil", "gas", "petroleum", "energy", "drilling">> >>,
    <<"Healthcare", <<"health", "medical", "pharma", "hospital", "healthcare">> >>,
    <<"Financial Services", <<"bank", "finance", "financial", "investment", "credit">> >>,
    <<"Real Estate", <<"real estate", "property", "construction", "building">> >>,
    <<"Manufacturing", <<"manufacturing", "production", "factory", "industrial">> >>,
    <<"Retail", <<"retail", "commerce", "shopping", "consumer goods">> >> >>

RECURSIVE FirstKeywordMatch(_, _, _)
\* for label, keywords in table.items(): if any(keyword in text ...): return label
\* ... return None
FirstKeywordMatch(table, text, i) ==
    IF i > Len(table) THEN None
    ELSE IF AnyKeywordIn(table[i][2], text) THEN Some(table[i][1])
    ELSE FirstKeywordMatch(table, text, i + 1)

\* the text against every label before the filename
DetectAgreementTypeTextFirst(text, filename) ==
    LET byText == FirstKeywordMatch(agreement_patterns, text, 1)
    IN IF byText /= None THEN byText
       ELSE FirstKeywordMatch(agreement_patterns, filename, 1)

\* _detect_agreement_type(text, filename): the filename against every label,
\* then the text against every label
DetectAgreementType(text, filename) ==
    LET byName == FirstKeywordMatch(agreement_patterns, filename, 1)
    IN IF byName /= None THEN byName
       ELSE FirstKeywordMatch(agreement_patterns, text, 1)

\* any(f"governed by {keyword}" in text or f"laws of {keyword}" in text ...)
AnyLawPhraseIn(keywords, text) ==
    \E i \in 1..Len(keywords) :
        \/ Contains("governed by " \o keywords[i], text)
        \/ Contains("laws of " \o keywords[i], text)

RECURSIVE FirstLawMatch(_, _)
FirstLawMatch(text, i) ==
    IF i > Len(law_patterns) THEN None
    ELSE IF AnyLawPhraseIn(law_patterns[i][2], text) THEN Some(law_patterns[i][1])
    ELSE IF AnyKeywordIn(law_patterns[i][2], text) THEN Some(law_patterns[i][1])
    ELSE FirstLawMatch(text, i + 1)

\* the phrases of every label before the bare keywords of any
DetectGoverningLawPhrasesFirst(text) ==
    LET byPhrase == {i \in 1..Len(law_patterns) : AnyLawPhraseIn(law_patterns[i][2], text)}
        byWord == {i \in 1..Len(law_patterns) : AnyKeywordIn(law_patterns[i][2], text)}
        Min(S) == CHOOSE i \in S : \A j \in S : i <= j
    IN IF byPhrase /= {} THEN Some(law_patterns[Min(byPhrase)][1])
       ELSE IF byWord /= {} THEN Some(law_patterns[Min(byWord)][1])
       ELSE None

\* _detect_governing_law(text)
DetectGoverningLaw(text) == FirstLawMatch(text, 1)

\* a region of last resort when no keyword is found
DetectGeographyDefault(text) ==
    LET found == FirstKeywordMatch(geo_patterns, text, 1)
    IN IF found = None THEN Some("Global") ELSE found

\* _detect_geography(text)
DetectGeography(text) == FirstKeywordMatch(geo_patterns, text, 1)

\* _detect_industry_sector(text)
DetectIndustrySector(text) == FirstKeywordMatch(industry_patterns, text, 1)

\* confidence_score=0.6 in the fallback record, in hundredths
FallbackConfidenceScore == 60

\* the confidence the fallback path returns beside the record, in hundredths
FallbackConfidence == 60

\* DocumentMetadata(...)
DocumentMetadata(at, gl, j, geo, ind, score) ==
    [agreement_type |-> at, governing_law |-> gl, jurisdiction |-> j,
     geography |-> geo, industry_sector |-> ind, confidence_score |-> score]

\* the fallback record with the jurisdiction left unset
ExtractWithFallbackNoJurisdiction(document_text, filename) ==
    LET text_lower == Lower(document_text)
    IN [metadata |-> DocumentMetadata(
                        DetectAgreementType(text_lower, Lower(filename)),
                        DetectGoverningLaw(text_lower),
                        None,
                        DetectGeography(text_lower),
                        DetectIndustrySector(text_lower),
                        FallbackConfidenceScore),
        confidence |-> FallbackConfidence]

\* _extract_with_fallback(document_text, filename): (metadata, confidence)
ExtractWithFallback(document_text, filename) ==
    LET text_lower == Lower(document_text)
        governing_law == DetectGoverningLaw(text_lower)
    IN [metadata |-> DocumentMetadata(
                        DetectAgreementType(text_lower, Lower(filename)),
                        governing_law,
                        governing_law,
                        DetectGeography(text_lower),
                        DetectIndustrySector(text_lower),
                        FallbackConfidenceScore),
        confidence |-> FallbackConfidence]

(***************************************************************************)
(* The external chat-completion call and its reply                         *)
(*                                                                         *)
(* A JSON value is [t, s, items, fields]: t is its type, s the text of a   *)
(* string or number, items the elements of an array, fields the            *)
(* <<key, value>> pairs of an object in the order written.                 *)
(***************************************************************************)

JNull == [t |-> "null", s |-> "", items |-> <<>>, fields |-> <<>>]

JStr(s) == [t |-> "str", s |-> s, items |-> <<>>, fields |-> <<>>]

JNum(s) == [t |-> "num", s |-> s, items |-> <<>>, fields |-> <<>>]

JArr(items) == [t |-> "arr", s |-> "", items |-> items, fields |-> <<>>]

JObj(fields) == [t |-> "obj", s |-> "", items |-> <<>>, fields |-> fields]

\* `key in d` for a dict parsed from a JSON object
HasKey(obj, key) == \E i \in 1..Len(obj.fields) : obj.fields[i][1] = key

\* d[key] for a key that is present: the last pair written wins, as in json.loads
GetItem(obj, key) ==
    LET i == CHOOSE i \in 1..Len(obj.fields) :
                 /\ obj.fields[i][1] = key
                 /\ \A j \in (i + 1)..Len(obj.fields) : obj.fields[j][1] /= key
    IN obj.fields[i][2]

\* d.get(key): None (JSON null) when the key is absent
DictGet(obj, key) == IF HasKey(obj, key) THEN GetItem(obj, key) ELSE JNull

\* A reply text is a sequence of segments: a "```json" fence, a bare "```"
\* fence, prose, or the text of one well-formed JSON value.
FenceJson == [k |-> "fence_json", v |-> JNull]

Fence == [k |-> "fence", v |-> JNull]

Prose == [k |-> "prose", v |-> JNull]

JsonText(v) == [k |-> "json", v |-> v]

\* the segments before the first segment of one of the kinds: text.split(sep)[0]
BeforeFirst(segs, kinds) ==
    IF \E i \in 1..Len(segs) : segs[i].k \in kinds
    THEN LET i == CHOOSE i \in 1..Len(segs) :
                      /\ segs[i].k \in kinds
                      /\ \A j \in 1..(i - 1) : segs[j].k \notin kinds
         IN SubSeq(segs, 1, i - 1)
    ELSE segs

\* the segments after the first segment of one of the kinds, up to the next
\* one: text.split(sep)[1] (called only when sep occurs)
AfterFirst(segs, kinds) ==
    LET i == CHOOSE i \in 1..Len(segs) :
                 /\ segs[i].k \in kinds
                 /\ \A j \in 1..(i - 1) : segs[j].k \notin kinds
    IN BeforeFirst(SubSeq(segs, i + 1, Len(segs)), kinds)

\* "Remove any markdown formatting": "```" also occurs inside "```json"
StripFences(segs) ==
    IF \E i \in 1..Len(segs) : segs[i].k = "fence_json"
    THEN BeforeFirst(AfterFirst(segs, {"fence_json"}), {"fence", "fence_json"})
    ELSE IF \E i \in 1..Len(segs) : segs[i].k = "fence"
    THEN BeforeFirst(AfterFirst(segs, {"fence"}), {"fence"})
    ELSE segs

\* json.loads(text): the value of a text that is exactly one JSON value,
\* JSONDecodeError for anything else (empty text, prose, extra data)
JsonLoads(segs) ==
    IF Len(segs) = 1 /\ segs[1].k = "json"
    THEN [exc |-> "", value |-> segs[1].v]
    ELSE [exc |-> "JSONDecodeError", value |-> JNull]

\* What self.client.chat.completions.create(...) and the read of
\* response.choices[0].message.content can do: raise (network, auth, timeout),
\* hand back no content, or hand back a text.
AIRaises == [kind |-> "raises", segs |-> <<>>]

AINoContent == [kind |-> "no_content", segs |-> <<>>]

AIContent(segs) == [kind |-> "content", segs |-> segs]

\* response_text = response.choices[0].message.content.strip()
ResponseText(reply) ==
    IF reply.kind = "raises" THEN [exc |-> "APIError", segs |-> <<>>]
    ELSE IF reply.kind = "no_content" THEN [exc |-> "AttributeError", segs |-> <<>>]
    ELSE [exc |-> "", segs |-> reply.segs]

\* the exception classes `except Exception` catches
ExceptionClasses ==
    {"APIError", "AttributeError", "TypeError", "ValidationError", "JSONDecodeError"}

(***************************************************************************)
(* MetadataExtractor                                                       *)
(***************************************************************************)

\* The test Python makes of settings.openai_api_key in `if not key` / `and key`
ApiKeyConfiguredNotNone(key) == key /= None

\* None and the empty string both count as "not configured"
ApiKeyConfigured(key) == Truthy(key)

\* __init__ (of both services): self.client
MakeClient(key) == IF ~ApiKeyConfigured(key) THEN None ELSE Some("OpenAI")

\* `if self.client and settings.openai_api_key` (of both services)
UseAI(client, key) == client /= None /\ ApiKeyConfigured(key)

\* the document prefix the AI request keeps
TruncateLen == 6000

\* the whole document placed in the request
TruncatedTextWhole(document_text) == document_text

\* truncated_text
TruncatedText(document_text) ==
    IF Len(document_text) > TruncateLen
    THEN SubSeq(document_text, 1, TruncateLen) \o "..."
    ELSE document_text

\* the user message of the extraction request
ExtractRequest(document_text, filename) ==
    [filename |-> filename, content |-> TruncatedText(document_text)]

\* confidence_score=0.85 in the AI record, in hundredths
AIConfidenceScore == 85

\* the confidence the AI path returns beside the record, in hundredths
AIConfidence == 85

\* An extract_metadata invocation: where it is (idle, ai: waiting for the
\* reply, done), its arguments, the request in flight, the reply last
\* received, the AI calls it made,
\* the fallback runs it made, the path that produced the result, the
\* exception it raised to its caller ("" for none) and what it returned.
IdleExtract ==
    [pc |-> "idle", document_text |-> [pad |-> 0, body |-> ""], filename |-> "",
     request |-> <<>>, reply |-> <<>>, ai_calls |-> 0, fallback_runs |-> 0,
     path |-> "", raised |-> "", result |-> <<>>]

\* return await self._extract_with_fallback(document_text, filename), with the
\* document cut as for the request
ExtractFallbackTruncated(f) ==
    [f EXCEPT !.pc = "done", !.request = <<>>,
              !.fallback_runs = @ + 1,
              !.path = IF f.ai_calls = 0 THEN "fallback" ELSE "ai_failed_fallback",
              !.result = <<ExtractWithFallback(TruncatedText(Text(f.document_text)),
                                               f.filename)>>]

\* the AI call made again after a failure (once more, then the fallback)
ExtractRetry(f) ==
    IF f.ai_calls = 1
    THEN [f EXCEPT !.ai_calls = @ + 1]
    ELSE [f EXCEPT !.pc = "done", !.request = <<>>,
                   !.fallback_runs = @ + 1, !.path = "ai_failed_fallback",
                   !.result = <<ExtractWithFallback(Text(f.document_text), f.filename)>>]

\* return await self._extract_with_fallback(document_text, filename)
ExtractFallback(f) ==
    [f EXCEPT !.pc = "done", !.request = <<>>,
              !.fallback_runs = @ + 1,
              !.path = IF f.ai_calls = 0 THEN "fallback" ELSE "ai_failed_fallback",
              !.result = <<ExtractWithFallback(Text(f.document_text), f.filename)>>]

\* extract_metadata(document_text, filename) up to the external call
ExtractMetadata(document_text, filename, client, key) ==
    LET f == [IdleExtract EXCEPT !.document_text = document_text,
                                 !.filename = filename]
    IN IF UseAI(client, key)
       THEN [f EXCEPT !.pc = "ai",
                      !.request = <<ExtractRequest(Text(document_text), filename)>>,
                      !.ai_calls = 1]
       ELSE ExtractFallback(f)

\* pydantic's check of an Optional[str] field (pydantic 2, whose
\* model_validate the API uses: a number is not coerced to str)
ValidOptionalStr(v) == v.t \in {"str", "null"}

\* the Optional[str] a JSON string or null becomes
OptionalStr(v) == IF v.t = "str" THEN Some(v.s) ELSE None

MetadataFields ==
    <<"agreement_type", "governing_law", "jurisdiction", "geography", "industry_sector">>

\* any parsed value read as a dict with every key absent
MetadataOfParsedLenient(value) ==
    LET d == IF value.t = "obj" THEN value ELSE JObj(<<>>)
    IN IF \E i \in 1..Len(MetadataFields) : ~ValidOptionalStr(DictGet(d, MetadataFields[i]))
       THEN [exc |-> "ValidationError", result |-> <<>>]
       ELSE [exc |-> "",
             result |-> <<[metadata |-> DocumentMetadata(
                                          OptionalStr(DictGet(d, "agreement_type")),
                                          OptionalStr(DictGet(d, "governing_law")),
                                          OptionalStr(DictGet(d, "jurisdiction")),
                                          OptionalStr(DictGet(d, "geography")),
                                          OptionalStr(DictGet(d, "industry_sector")),
                                          AIConfidenceScore),
                           confidence |-> AIConfidence]>>]

\* the AI record built with the fallback's confidence beside it
MetadataOfParsedLowConfidence(value) ==
    IF value.t /= "obj" THEN [exc |-> "AttributeError", result |-> <<>>]
    ELSE IF \E i \in 1..Len(MetadataFields) :
                ~ValidOptionalStr(DictGet(value, MetadataFields[i]))
    THEN [exc |-> "ValidationError", result |-> <<>>]
    ELSE [exc |-> "",
          result |-> <<[metadata |-> DocumentMetadata(
                                       OptionalStr(DictGet(value, "agreement_type")),
                                       OptionalStr(DictGet(value, "governing_law")),
                                       OptionalStr(DictGet(value, "jurisdiction")),
                                       OptionalStr(DictGet(value, "geography")),
                                       OptionalStr(DictGet(value, "industry_sector")),
                                       AIConfidenceScore),
                        confidence |-> FallbackConfidence]>>]

\* metadata_dict.get(...) five times and DocumentMetadata(...): .get exists
\* only on a dict, and pydantic rejects a value that is neither str nor None
MetadataOfParsed(value) ==
    IF value.t /= "obj" THEN [exc |-> "AttributeError", result |-> <<>>]
    ELSE IF \E i \in 1..Len(MetadataFields) :
                ~ValidOptionalStr(DictGet(value, MetadataFields[i]))
    THEN [exc |-> "ValidationError", result |-> <<>>]
    ELSE [exc |-> "",
          result |-> <<[metadata |-> DocumentMetadata(
                                       OptionalStr(DictGet(value, "agreement_type")),
                                       OptionalStr(DictGet(value, "governing_law")),
                                       OptionalStr(DictGet(value, "jurisdiction")),
                                       OptionalStr(DictGet(value, "geography")),
                                       OptionalStr(DictGet(value, "industry_sector")),
                                       AIConfidenceScore),
                        confidence |-> AIConfidence]>>]

\* the body of the try of _extract_with_openai from the reply on: the
\* exception it ends with ("" for none) and what it returns
ExtractTry(reply) ==
    LET text == ResponseText(reply)
        parsed == JsonLoads(StripFences(text.segs))
    IN IF text.exc /= "" THEN [exc |-> text.exc, result |-> <<>>]
       ELSE IF parsed.exc /= "" THEN [exc |-> parsed.exc, result |-> <<>>]
       ELSE MetadataOfParsed(parsed.value)

\* `except json.JSONDecodeError` alone, without the outer handler
HandlerCatchesDecodeOnly(exc) == exc = "JSONDecodeError"

\* `except json.JSONDecodeError` inside, `except Exception` outside (of both
\* services)
HandlerCatches(exc) == exc = "JSONDecodeError" \/ exc \in ExceptionClasses

\* _extract_with_openai from the reply on
ExtractOnReply(f, reply) ==
    LET r == ExtractTry(reply)
    IN IF r.exc = ""
       THEN [f EXCEPT !.pc = "done", !.request = <<>>, !.path = "ai",
                      !.result = r.result]
       ELSE IF HandlerCatches(r.exc) THEN ExtractFallback(f)
       ELSE [f EXCEPT !.pc = "done", !.request = <<>>, !.path = "ai",
                      !.raised = r.exc]

(***************************************************************************)
(* QueryService                                                            *)
(***************************************************************************)

\* db.query(Document).all(): no status filter
AllDocuments(rows) == rows

\* db.query(Document).filter(Document.processing_status == "completed").all()
CompletedDocuments(rows) ==
    SelectSeq(rows, LAMBDA d : d.processing_status = "completed")

\* no early return
NeverEmpty(documents) == FALSE

\* `if not documents`
NoDocuments(documents) == documents = <<>>

\* s.strip() of blanks
RECURSIVE Strip(_)
Strip(s) ==
    IF Len(s) = 0 THEN s
    ELSE IF SubSeq(s, 1, 1) = " " THEN Strip(SubSeq(s, 2, Len(s)))
    ELSE IF SubSeq(s, Len(s), Len(s)) = " " THEN Strip(SubSeq(s, 1, Len(s) - 1))
    ELSE s

RECURSIVE ReplaceChar(_, _, _)
\* s.replace(old, new) for one-character old
ReplaceChar(s, old, new) ==
    IF Len(s) = 0 THEN s
    ELSE IF Len(s) = 1 THEN (IF s = old THEN new ELSE s)
    ELSE LET h == Len(s) \div 2
         IN ReplaceChar(SubSeq(s, 1, h), old, new)
            \o ReplaceChar(SubSeq(s, h + 1, Len(s)), old, new)

RECURSIVE Join(_, _)
\* sep.join(parts)
Join(parts, sep) ==
    IF Len(parts) = 0 THEN ""
    ELSE IF Len(parts) = 1 THEN parts[1]
    ELSE parts[1] \o sep \o Join(Tail(parts), sep)

\* the content prefix a context line keeps
SnippetLen == 200

\* content_snippet
ContentSnippet(content_text) ==
    LET cut == Strip(ReplaceChar(Prefix(content_text, SnippetLen), "\n", " "))
    IN IF Len(content_text) > SnippetLen THEN cut \o "..." ELSE cut

\* metadata_parts: the fields that are set, in a fixed order
MetadataParts(doc) ==
    (IF Truthy(doc.agreement_type) THEN <<"Type: " \o doc.agreement_type[1]>> ELSE <<>>)
    \o (IF Truthy(doc.governing_law)
        THEN <<"Governing Law: " \o doc.governing_law[1]>> ELSE <<>>)
    \o (IF Truthy(doc.jurisdiction)
        THEN <<"Jurisdiction: " \o doc.jurisdiction[1]>> ELSE <<>>)
    \o (IF Truthy(doc.geography) THEN <<"Geography: " \o doc.geography[1]>> ELSE <<>>)
    \o (IF Truthy(doc.industry_sector)
        THEN <<"Industry: " \o doc.industry_sector[1]>> ELSE <<>>)

\* doc_info: one context line
DocInfo(doc) ==
    "Filename: " \o doc.original_filename
    \o (IF MetadataParts(doc) /= <<>>
        THEN " | " \o Join(MetadataParts(doc), " | ") ELSE "")
    \o " | Content: " \o ContentSnippet(Text(doc.content_text))

\* _prepare_document_context(documents)
PrepareDocumentContext(documents) ==
    Join([i \in 1..Len(documents) |-> DocInfo(documents[i])], "\n")

\* field_keywords
field_keywords == <<
    <<"governing_law", <<"law", "governed", "governing", "jurisdiction", "legal">> >>,
    <<"jurisdiction", <<"jurisdiction", "court", "dispute", "legal">> >>,
    <<"geography", <<"geography", "region", "location", "country", "where">> >>,
    <<"industry_sector", <<"industry", "sector", "business", "field">> >>,
    <<"agreement_type", <<"type", "agreement", "contract", "kind">> >> >>

\* base_fields
base_fields == {"agreement_type"}

\* the fields the question's keywords name, without the base fields
AnalyzeQuestionIntentNoBase(question) ==
    {field_keywords[i][1] : i \in {j \in 1..Len(field_keywords) :
                                       AnyKeywordIn(field_keywords[j][2], question)}}

\* _analyze_question_intent(question): the set of fields to return
AnalyzeQuestionIntent(question) ==
    base_fields
    \cup {field_keywords[i][1] : i \in {j \in 1..Len(field_keywords) :
                                         AnyKeywordIn(field_keywords[j][2], question)}}

\* the field is set and its lowercased value contains one of the terms
FieldHasAny(value, terms) == Truthy(value) /\ AnyKeywordIn(terms, Lower(value[1]))

\* the six filters read as alternatives: a document passes when no filter
\* fires or some filter that fires is satisfied
DocumentMatchesQueryAny(document, question) ==
    LET rows == << <<(<<"uae", "emirates", "dubai">>), "governing_law", (<<"uae">>)>>,
                   <<(<<"uk", "england", "british">>), "governing_law", (<<"uk">>)>>,
                   <<(<<"nda", "non-disclosure">>), "agreement_type", (<<"nda">>)>>,
                   <<(<<"msa", "master service">>), "agreement_type", (<<"msa">>)>>,
                   <<(<<"technology", "tech", "software">>), "industry_sector",
                     (<<"technology">>)>>,
                   <<(<<"oil", "gas", "energy">>), "industry_sector",
                     (<<"oil", "gas", "energy">>)>> >>
        fired == {r \in 1..Len(rows) : AnyKeywordIn(rows[r][1], question)}
    IN fired = {} \/ \E r \in fired : FieldHasAny(document[rows[r][2]], rows[r][3])

\* _document_matches_query(document, question)
DocumentMatchesQuery(document, question) ==
    /\ AnyKeywordIn(<<"uae", "emirates", "dubai">>, question)
         => FieldHasAny(document.governing_law, <<"uae">>)
    /\ AnyKeywordIn(<<"uk", "england", "british">>, question)
         => FieldHasAny(document.governing_law, <<"uk">>)
    /\ AnyKeywordIn(<<"nda", "non-disclosure">>, question)
         => FieldHasAny(document.agreement_type, <<"nda">>)
    /\ AnyKeywordIn(<<"msa", "master service">>, question)
         => FieldHasAny(document.agreement_type, <<"msa">>)
    /\ AnyKeywordIn(<<"technology", "tech", "software">>, question)
         => FieldHasAny(document.industry_sector, <<"technology">>)
    /\ AnyKeywordIn(<<"oil", "gas", "energy">>, question)
         => FieldHasAny(document.industry_sector, <<"oil", "gas", "energy">>)

\* the upper-case letter of a lower-case one
UpperOf == [c \in {LowerOf[u] : u \in DOMAIN LowerOf} |->
                CHOOSE u \in DOMAIN LowerOf : LowerOf[u] = c]

IsLetter(c) == c \in DOMAIN LowerOf \/ c \in DOMAIN UpperOf

RECURSIVE TitleFrom(_, _)
\* str.title() from position i on: a letter that follows a non-letter is
\* upper-cased, every other letter lower-cased
TitleFrom(s, i) ==
    IF i > Len(s) THEN ""
    ELSE LET c == SubSeq(s, i, i)
             first == i = 1 \/ ~IsLetter(SubSeq(s, i - 1, i - 1))
         IN (IF first
             THEN (IF c \in DOMAIN UpperOf THEN UpperOf[c] ELSE c)
             ELSE LowerChar(c))
            \o TitleFrom(s, i + 1)

\* the field name used as the key unchanged
ReadableKeyRaw(field) == field

\* readable_key = field.replace('_', ' ').title()
ReadableKey(field) == TitleFrom(ReplaceChar(field, "_", " "), 1)

\* data: the requested fields that are set on the document, by readable key
FallbackData(doc, return_fields) ==
    LET set == {f \in return_fields : Truthy(doc[f])}
    IN [k \in {ReadableKey(f) : f \in set} |->
            JStr(doc[CHOOSE f \in set : ReadableKey(f) = k][1])]

\* QueryResult(document=..., data=...)
QueryResult(document, data) == [document |-> document, data |-> data]

RECURSIVE FallbackResultsKeepEmpty(_, _, _)
\* the loop without the `if data:` test
FallbackResultsKeepEmpty(documents, question_lower, i) ==
    IF i > Len(documents) THEN <<>>
    ELSE LET doc == documents[i]
             data == FallbackData(doc, AnalyzeQuestionIntent(question_lower))
         IN (IF DocumentMatchesQuery(doc, question_lower)
             THEN <<QueryResult(doc.original_filename, data)>> ELSE <<>>)
            \o FallbackResultsKeepEmpty(documents, question_lower, i + 1)

RECURSIVE FallbackResultsNewestFirst(_, _, _)
\* the loop with results.insert(0, ...) in place of results.append(...)
FallbackResultsNewestFirst(documents, question_lower, i) ==
    IF i > Len(documents) THEN <<>>
    ELSE LET doc == documents[i]
             data == FallbackData(doc, AnalyzeQuestionIntent(question_lower))
         IN FallbackResultsNewestFirst(documents, question_lower, i + 1)
            \o (IF DocumentMatchesQuery(doc, question_lower) /\ DOMAIN data /= {}
                THEN <<QueryResult(doc.original_filename, data)>> ELSE <<>>)

RECURSIVE FallbackResults(_, _, _)
\* the loop of _process_with_fallback over the documents from the i-th on
FallbackResults(documents, question_lower, i) ==
    IF i > Len(documents) THEN <<>>
    ELSE LET doc == documents[i]
             data == FallbackData(doc, AnalyzeQuestionIntent(question_lower))
         IN (IF DocumentMatchesQuery(doc, question_lower) /\ DOMAIN data /= {}
             THEN <<QueryResult(doc.original_filename, data)>> ELSE <<>>)
            \o FallbackResults(documents, question_lower, i + 1)

\* the results in the opposite order on every call after a returned one
ProcessWithFallbackUnstable(question, documents) ==
    LET r == FallbackResults(documents, Lower(question), 1)
    IN IF q.pc = "done" THEN [i \in 1..Len(r) |-> r[Len(r) + 1 - i]] ELSE r

\* _process_with_fallback(question, documents)
ProcessWithFallback(question, documents) ==
    FallbackResults(documents, Lower(question), 1)

\* A process_query invocation: as for extract_metadata, with the documents
\* it selected.
IdleQuery ==
    [pc |-> "idle", question |-> "", documents |-> <<>>, request |-> <<>>,
     reply |-> <<>>, ai_calls |-> 0, fallback_runs |-> 0, path |-> "",
     raised |-> "", result |-> <<>>]

\* `return []` in place of the fallback after a failed AI call
QueryFallbackEmpty(f) ==
    [f EXCEPT !.pc = "done", !.request = <<>>,
              !.fallback_runs = @ + 1,
              !.path = IF f.ai_calls = 0 THEN "fallback" ELSE "ai_failed_fallback",
              !.result = <<IF f.ai_calls = 0
                           THEN ProcessWithFallback(f.question, f.documents)
                           ELSE <<>> >>]

\* return await self._process_with_fallback(question, documents)
QueryFallback(f) ==
    [f EXCEPT !.pc = "done", !.request = <<>>,
              !.fallback_runs = @ + 1,
              !.path = IF f.ai_calls = 0 THEN "fallback" ELSE "ai_failed_fallback",
              !.result = <<ProcessWithFallback(f.question, f.documents)>>]

\* the user message of the query request
QueryRequest(question, documents) ==
    [question |-> question, context |-> PrepareDocumentContext(documents)]

\* process_query(question, db) up to the external call
ProcessQuery(question, rows, client, key) ==
    LET documents == CompletedDocuments(rows)
        f == [IdleQuery EXCEPT !.question = question, !.documents = documents]
    IN IF NoDocuments(documents)
       THEN [f EXCEPT !.pc = "done", !.path = "empty", !.result = << <<>> >>]
       ELSE IF UseAI(client, key)
       THEN [f EXCEPT !.pc = "ai",
                      !.request = <<QueryRequest(question, documents)>>,
                      !.ai_calls = 1]
       ELSE QueryFallback(f)

\* the keys of a dict parsed from a JSON object
Keys(obj) == {obj.fields[i][1] : i \in 1..Len(obj.fields)}

\* a walk that refuses an array with an element that is not an object
IterateObjectsOnly(value) ==
    IF value.t = "arr" /\ \A i \in 1..Len(value.items) : value.items[i].t = "obj"
    THEN [exc |-> "", items |-> value.items]
    ELSE [exc |-> "TypeError", items |-> <<>>]

\* what `for result in results_data` walks: the elements of a list, the keys
\* of a dict, the characters of a str; TypeError for a number or None
Iterate(value) ==
    IF value.t = "arr" THEN [exc |-> "", items |-> value.items]
    ELSE IF value.t = "obj"
    THEN [exc |-> "", items |-> [i \in 1..Len(value.fields) |-> JStr(value.fields[i][1])]]
    ELSE IF value.t = "str"
    THEN [exc |-> "", items |-> [i \in 1..Len(value.s) |-> JStr(SubSeq(value.s, i, i))]]
    ELSE [exc |-> "TypeError", items |-> <<>>]

\* isinstance(result, dict) and "document" in result and "data" in result
Accepted(item) == item.t = "obj" /\ HasKey(item, "document") /\ HasKey(item, "data")

\* pydantic's check of QueryResult(document: str, data: Dict[str, Any])
ValidQueryResult(item) ==
    GetItem(item, "document").t = "str" /\ GetItem(item, "data").t = "obj"

\* QueryResult(document=result["document"], data=result["data"])
QueryResultOfItem(item) ==
    LET data == GetItem(item, "data")
    IN QueryResult(GetItem(item, "document").s,
                   [k \in Keys(data) |-> GetItem(data, k)])

\* the body of the try of _process_with_openai from the reply on
QueryTry(reply) ==
    LET text == ResponseText(reply)
        parsed == JsonLoads(StripFences(text.segs))
        walk == Iterate(parsed.value)
        kept == SelectSeq(walk.items, Accepted)
    IN IF text.exc /= "" THEN [exc |-> text.exc, result |-> <<>>]
       ELSE IF parsed.exc /= "" THEN [exc |-> parsed.exc, result |-> <<>>]
       ELSE IF walk.exc /= "" THEN [exc |-> walk.exc, result |-> <<>>]
       ELSE IF \E i \in 1..Len(kept) : ~ValidQueryResult(kept[i])
       THEN [exc |-> "ValidationError", result |-> <<>>]
       ELSE [exc |-> "",
             result |-> <<[i \in 1..Len(kept) |-> QueryResultOfItem(kept[i])]>>]

\* the elements accepted before the failure kept in front of the fallback's
QueryOnReplyMerging(f, reply) ==
    LET r == QueryTry(reply)
        walk == Iterate(JsonLoads(StripFences(ResponseText(reply).segs)).value)
        good == SelectSeq(walk.items,
                          LAMBDA item : Accepted(item) /\ ValidQueryResult(item))
    IN IF r.exc = ""
       THEN [f EXCEPT !.pc = "done", !.request = <<>>, !.path = "ai",
                      !.result = r.result]
       ELSE [QueryFallback(f) EXCEPT
                !.result = <<[i \in 1..Len(good) |-> QueryResultOfItem(good[i])]
                             \o QueryFallback(f).result[1]>>]

\* _process_with_openai from the reply on
QueryOnReply(f, reply) ==
    LET r == QueryTry(reply)
    IN IF r.exc = ""
       THEN [f EXCEPT !.pc = "done", !.request = <<>>, !.path = "ai",
                      !.result = r.result]
       ELSE IF HandlerCatches(r.exc) THEN QueryFallback(f)
       ELSE [f EXCEPT !.pc = "done", !.request = <<>>, !.path = "ai",
                      !.raised = r.exc]

(***************************************************************************)
(* DocumentProcessor.validate_file                                         *)
(***************************************************************************)

\* the position of the last occurrence of the character c in s, 0 for none
LastIndexOf(c, s) ==
    LET at == {i \in 1..Len(s) : SubSeq(s, i, i) = c}
    IN IF at = {} THEN 0 ELSE CHOOSE i \in at : \A j \in at : j <= i

\* Path(p).name: what follows the last "/"
PathName(p) == SubSeq(p, LastIndexOf("/", p) + 1, Len(p))

\* Path(p).suffix: the name from its last dot on, unless that dot comes
\* first or last in the name
PathSuffix(p) ==
    LET name == PathName(p)
        i == LastIndexOf(".", name)
    IN IF 1 < i /\ i < Len(name) THEN SubSeq(name, i, Len(name)) ELSE ""

\* allowed_extensions of validate_file
ValidateAllowedExtensions == {".pdf", ".docx"}

\* the two texts str() can give for the set of allowed extensions
AllowedExtensionsReprs == {"{'.pdf', '.docx'}", "{'.docx', '.pdf'}"}

\* A file as validate_file finds it: whether os.path.exists sees it, its
\* size, and whether it is gone again by the time os.path.getsize asks.
StoredFile(path, size) == [path |-> path, exists |-> TRUE, size |-> size, vanishes |-> FALSE]

MissingFile(path) == [path |-> path, exists |-> FALSE, size |-> 0, vanishes |-> FALSE]

VanishingFile(path, size) == [path |-> path, exists |-> TRUE, size |-> size, vanishes |-> TRUE]

\* a validate_file invocation: its arguments and what it returned
IdleValidate ==
    [pc |-> "idle", file |-> MissingFile(""), max_size |-> 0, raised |-> "",
     result |-> <<>>]

\* the extension looked at before the size
ValidateFileExtensionFirst(file, max_size, repr) ==
    IF ~file.exists THEN [is_valid |-> FALSE, error |-> Some("File not found")]
    ELSE IF file.vanishes
    THEN [is_valid |-> FALSE,
          error |-> Some("Error validating file: [Errno 2] No such file or directory: '"
                         \o file.path \o "'")]
    ELSE IF Lower(PathSuffix(file.path)) \notin ValidateAllowedExtensions
    THEN [is_valid |-> FALSE,
          error |-> Some("Unsupported file format: " \o Lower(PathSuffix(file.path))
                         \o ". Allowed formats: " \o repr)]
    ELSE IF file.size > max_size
    THEN [is_valid |-> FALSE,
          error |-> Some("File size (" \o ToString(file.size)
                         \o " bytes) exceeds maximum allowed size ("
                         \o ToString(max_size) \o " bytes)")]
    ELSE [is_valid |-> TRUE, error |-> None]

\* validate_file(file_path, max_size): existence, size, extension, with the
\* FileNotFoundError of os.path.getsize caught by `except Exception`
ValidateFile(file, max_size, repr) ==
    IF ~file.exists THEN [is_valid |-> FALSE, error |-> Some("File not found")]
    ELSE IF file.vanishes
    THEN [is_valid |-> FALSE,
          error |-> Some("Error validating file: [Errno 2] No such file or directory: '"
                         \o file.path \o "'")]
    ELSE IF file.size > max_size
    THEN [is_valid |-> FALSE,
          error |-> Some("File size (" \o ToString(file.size)
                         \o " bytes) exceeds maximum allowed size ("
                         \o ToString(max_size) \o " bytes)")]
    ELSE IF Lower(PathSuffix(file.path)) \notin ValidateAllowedExtensions
    THEN [is_valid |-> FALSE,
          error |-> Some("Unsupported file format: " \o Lower(PathSuffix(file.path))
                         \o ". Allowed formats: " \o repr)]
    ELSE [is_valid |-> TRUE, error |-> None]

\* an upload request not yet made
IdleUpload ==
    [pc |-> "idle", files |-> <<>>, status |-> 0, detail |-> "",
     uploaded_files |-> <<>>, failed_files |-> <<>>]

\* nothing validated, nothing stored, nothing scheduled, nothing uploaded
ApiIdle ==
    /\ vf = IdleValidate
    /\ disk = {}
    /\ bg = <<>>
    /\ up = IdleUpload
    /\ runs = <<>>

(***************************************************************************)
(* upload_documents                                                        *)
(***************************************************************************)

\* os.path.splitext(p)[1]: the name from its last dot on, unless only dots
\* come before that dot
SplitExt(p) ==
    LET name == PathName(p)
        i == LastIndexOf(".", name)
    IN IF i > 0 /\ \E j \in 1..(i - 1) : SubSeq(name, j, j) # "."
       THEN SubSeq(name, i, Len(name))
       ELSE ""

\* settings.allowed_extensions
AllowedExtensions == {".pdf", ".docx"}

\* settings.max_file_size
MaxFileSize == 50 * 1024 * 1024

\* settings.upload_dir
UploadDir == "./uploads"

\* An uploaded file: its name, the length of its content, what the text
\* libraries will make of that content, and how saving it goes: "ok", the
\* open() raising ("open_fails"), or the write raising after the file was
\* created ("write_fails").
UploadFile(filename, size, content, save) ==
    [filename |-> filename, size |-> size, content |-> content, save |-> save]

\* the content of a file: whether pdfplumber, PyPDF2 or python-docx can read
\* it, and the text they find in it
FileContent(readable, text) == [readable |-> readable, text |-> text]

\* a file in the upload directory; `original` remembers the upload it was
\* written for
DiskFile(path, file) ==
    [path |-> path, size |-> file.size, content |-> file.content,
     original |-> file.filename]

\* str(uuid.uuid4()): a name no stored file has; files are only ever removed
\* right after they were written, so the count of stored files gives one
Uuid4(stored) == "uuid" \o ToString(Cardinality(stored) + 1)

\* the row db.add/commit/refresh give for Document(filename=..., ...,
\* content_text="", processing_status="pending")
NewDocument(id, unique_filename, file, file_path) ==
    [id |-> id, filename |-> unique_filename,
     original_filename |-> file.filename, file_path |-> file_path,
     file_size |-> file.size, content_text |-> [pad |-> 0, body |-> ""],
     processing_status |-> "pending",
     agreement_type |-> None, governing_law |-> None, jurisdiction |-> None,
     geography |-> None, industry_sector |-> None, confidence_score |-> None,
     processing_error |-> None]

\* a background task added with background_tasks.add_task, not started yet
ScheduledTask(document_id) == [pc |-> "scheduled", document_id |-> document_id]

\* DocumentResponse.model_validate(document), as far as it is looked at
DocumentResponse(document) ==
    [id |-> document.id, original_filename |-> document.original_filename,
     processing_status |-> document.processing_status]

FailedFile(filename, error) == [filename |-> filename, error |-> error]

\* the handler's progress through the files of a request
UploadState(rows, files, tasks) ==
    [db |-> rows, disk |-> files, bg |-> tasks,
     uploaded_files |-> <<>>, failed_files |-> <<>>]

\* the loop body with the file saved before its extension is looked at
UploadOneSaveFirst(st, file) ==
    LET file_extension == Lower(SplitExt(file.filename))
        unique_filename == Uuid4(st.disk) \o file_extension
        file_path == UploadDir \o "/" \o unique_filename
        written == st.disk \cup {DiskFile(file_path, file)}
        document == NewDocument(Len(st.db) + 1, unique_filename, file, file_path)
    IN IF file.save = "open_fails"
       THEN [st EXCEPT !.failed_files =
                Append(@, FailedFile(file.filename, "Upload failed: [Errno 2] No such file or directory: '"
                                                    \o file_path \o "'"))]
       ELSE IF file.save = "write_fails"
       THEN [st EXCEPT !.disk = written,
                       !.failed_files =
                Append(@, FailedFile(file.filename, "Upload failed: [Errno 28] No space left on device"))]
       ELSE IF file_extension \notin AllowedExtensions
       THEN [st EXCEPT !.disk = written,
                       !.failed_files =
                Append(@, FailedFile(file.filename, "Unsupported file format: " \o file_extension))]
       ELSE IF file.size > MaxFileSize
       THEN [st EXCEPT !.disk = written \ {DiskFile(file_path, file)},
                       !.failed_files =
                Append(@, FailedFile(file.filename, "File size (" \o ToString(file.size)
                                                    \o " bytes) exceeds maximum allowed size"))]
       ELSE [st EXCEPT !.disk = written,
                       !.db = Append(@, document),
                       !.bg = Append(@, ScheduledTask(document.id)),
                       !.uploaded_files = Append(@, DocumentResponse(document))]

\* The body of `for file in files`: the extension test, the save, the size
\* test with its clean-up, the row, the background task; an exception of
\* the save is caught by `except Exception`.
UploadOne(st, file) ==
    LET file_extension == Lower(SplitExt(file.filename))
        unique_filename == Uuid4(st.disk) \o file_extension
        file_path == UploadDir \o "/" \o unique_filename
        written == st.disk \cup {DiskFile(file_path, file)}
        document == NewDocument(Len(st.db) + 1, unique_filename, file, file_path)
    IN IF file_extension \notin AllowedExtensions
       THEN [st EXCEPT !.failed_files =
                Append(@, FailedFile(file.filename, "Unsupported file format: " \o file_extension))]
       ELSE IF file.save = "open_fails"
       THEN [st EXCEPT !.failed_files =
                Append(@, FailedFile(file.filename, "Upload failed: [Errno 2] No such file or directory: '"
                                                    \o file_path \o "'"))]
       ELSE IF file.save = "write_fails"
       THEN [st EXCEPT !.disk = written,
                       !.failed_files =
                Append(@, FailedFile(file.filename, "Upload failed: [Errno 28] No space left on device"))]
       ELSE IF file.size > MaxFileSize
       THEN [st EXCEPT !.disk = written \ {DiskFile(file_path, file)},
                       !.failed_files =
                Append(@, FailedFile(file.filename, "File size (" \o ToString(file.size)
                                                    \o " bytes) exceeds maximum allowed size"))]
       ELSE [st EXCEPT !.disk = written,
                       !.db = Append(@, document),
                       !.bg = Append(@, ScheduledTask(document.id)),
                       !.uploaded_files = Append(@, DocumentResponse(document))]

\* `for file in files`, from the i-th file on
RECURSIVE UploadLoop(_, _, _)
UploadLoop(st, files, i) ==
    IF i > Len(files) THEN st
    ELSE UploadLoop(UploadOne(st, files[i]), files, i + 1)

\* UploadResponse(message=..., uploaded_files=..., failed_files=...)
UploadMessage(st) ==
    "Successfully uploaded " \o ToString(Len(st.uploaded_files)) \o " files, "
    \o ToString(Len(st.failed_files)) \o " failed"

\* upload_documents(background_tasks, files, db): what the request leaves
\* behind (`st`) and what it answers (`up`)
UploadDocuments(files, rows, stored, tasks) ==
    IF Len(files) = 0
    THEN [st |-> UploadState(rows, stored, tasks),
          up |-> [pc |-> "done", files |-> files, status |-> 400,
                  detail |-> "No files provided",
                  uploaded_files |-> <<>>, failed_files |-> <<>>]]
    ELSE LET st == UploadLoop(UploadState(rows, stored, tasks), files, 1)
         IN [st |-> st,
             up |-> [pc |-> "done", files |-> files, status |-> 200,
                     detail |-> UploadMessage(st),
                     uploaded_files |-> st.uploaded_files,
                     failed_files |-> st.failed_files]]

(***************************************************************************)
(* DocumentProcessor.process_document and process_document_background      *)
(***************************************************************************)

\* the stripped length a PDF's text must exceed
PdfTextThreshold == 50

\* the stripped length a DOCX's text must exceed
DocxTextThreshold == 10

\* extract_text_from_pdf: (text, success); a file the libraries cannot read
\* raises inside, which gives ("", False)
ExtractTextFromPdf(content) ==
    IF ~content.readable THEN [text |-> [pad |-> 0, body |-> ""], success |-> FALSE]
    ELSE [text |-> content.text,
          success |-> Len(Strip(Text(content.text))) > PdfTextThreshold]

\* extract_text_from_docx: (text, success)
ExtractTextFromDocx(content) ==
    IF ~content.readable THEN [text |-> [pad |-> 0, body |-> ""], success |-> FALSE]
    ELSE [text |-> content.text,
          success |-> Len(Strip(Text(content.text))) > DocxTextThreshold]

\* process_document(file_path): (text, success)
ProcessDocument(file_path, stored) ==
    IF ~\E f \in stored : f.path = file_path
    THEN [text |-> [pad |-> 0, body |-> ""], success |-> FALSE]
    ELSE LET f == CHOOSE f \in stored : f.path = file_path
             file_extension == Lower(PathSuffix(file_path))
         IN IF file_extension = ".pdf" THEN ExtractTextFromPdf(f.content)
            ELSE IF file_extension = ".docx" THEN ExtractTextFromDocx(f.content)
            ELSE [text |-> [pad |-> 0, body |-> ""], success |-> FALSE]

\* db.query(Document).filter(Document.id == document_id).first()
FindDocument(rows, document_id) ==
    IF \E i \in 1..Len(rows) : rows[i].id = document_id
    THEN <<CHOOSE i \in 1..Len(rows) : rows[i].id = document_id>>
    ELSE <<>>

\* document.processing_status = "processing"
StartDocument(document) == [document EXCEPT !.processing_status = "processing"]

\* a failure recorded without a status
FailDocumentErrorOnly(document, error) ==
    [document EXCEPT !.processing_error = Some(error)]

\* document.processing_status = "failed"; document.processing_error = ...
FailDocument(document, error) ==
    [document EXCEPT !.processing_status = "failed",
                     !.processing_error = Some(error)]

\* the text stored and the document marked completed at once
StoreTextCompleted(document, text_content) ==
    [document EXCEPT !.content_text = text_content,
                     !.processing_status = "completed"]

\* document.content_text = text_content
StoreText(document, text_content) == [document EXCEPT !.content_text = text_content]

\* the status set to completed with the metadata still to come
CompleteDocumentStatusOnly(document, metadata, confidence) ==
    [document EXCEPT !.processing_status = "completed"]

\* the five metadata fields, the confidence and the status "completed",
\* assigned before the one db.commit()
CompleteDocument(document, metadata, confidence) ==
    [document EXCEPT !.agreement_type = metadata.agreement_type,
                     !.governing_law = metadata.governing_law,
                     !.jurisdiction = metadata.jurisdiction,
                     !.geography = metadata.geography,
                     !.industry_sector = metadata.industry_sector,
                     !.confidence_score = Some(confidence),
                     !.processing_status = "completed"]

\* db.commit() of the task's document
Commit(rows, document) ==
    [i \in 1..Len(rows) |-> IF rows[i].id = document.id THEN document ELSE rows[i]]

\* the locals of a task that has not got to them yet: text_content, the
\* extract_metadata call (its frame) and what it returned
IdleRun == [text_content |-> <<>>, x |-> <<>>, result |-> <<>>]

\* the locals of the tasks, those of the newly scheduled ones added
NewRuns(old, tasks) ==
    [k \in 1..Len(tasks) |-> IF k <= Len(old) THEN old[k] ELSE IdleRun]

\* process_document_background from its start to the first commit: the
\* document looked up, the task over if there is none, else "processing"
TaskStart(rows, task, run) ==
    LET found == FindDocument(rows, task.document_id)
    IN IF found = <<>>
       THEN [db |-> rows, task |-> [task EXCEPT !.pc = "exit"], run |-> run]
       ELSE [db |-> Commit(rows, StartDocument(rows[found[1]])),
             task |-> [task EXCEPT !.pc = "started"], run |-> run]

\* from the first commit to the next: the text extracted and stored, or the
\* document failed and the task over
TaskExtractText(rows, stored, task, run) ==
    LET document == rows[FindDocument(rows, task.document_id)[1]]
        r == ProcessDocument(document.file_path, stored)
    IN IF ~r.success
       THEN [db |-> Commit(rows, FailDocument(document,
                                              "Failed to extract text from document")),
             task |-> [task EXCEPT !.pc = "exit"], run |-> run]
       ELSE [db |-> Commit(rows, StoreText(document, r.text)),
             task |-> [task EXCEPT !.pc = "extracted"],
             run |-> [run EXCEPT !.text_content = <<r.text>>]]

\* from the return of extract_metadata (f: its frame) to the end of the
\* task: the metadata and "completed" in one commit, or, had it raised,
\* the except branch
TaskFinish(rows, task, run, f) ==
    LET document == rows[FindDocument(rows, task.document_id)[1]]
    IN IF f.raised /= ""
       THEN [db |-> Commit(rows, FailDocument(document, f.raised)),
             task |-> [task EXCEPT !.pc = "exit"],
             run |-> [run EXCEPT !.x = <<f>>]]
       ELSE [db |-> Commit(rows, CompleteDocument(document, f.result[1].metadata,
                                                  f.result[1].confidence)),
             task |-> [task EXCEPT !.pc = "exit"],
             run |-> [run EXCEPT !.x = <<f>>, !.result = f.result]]

\* from the text commit on: extract_metadata called; it returns at once on
\* the fallback path, else the task waits for the AI reply
TaskExtractMetadata(rows, task, run, client, key) ==
    LET document == rows[FindDocument(rows, task.document_id)[1]]
        f == ExtractMetadata(run.text_content[1], document.original_filename,
                             client, key)
    IN IF f.pc = "ai"
       THEN [db |-> rows, task |-> [task EXCEPT !.pc = "ai"],
             run |-> [run EXCEPT !.x = <<f>>]]
       ELSE TaskFinish(rows, task, run, f)

\* the reply handled with the request kept in one place for all calls: the
\* frame of the task that called last
TaskOnReplyShared(rows, task, run, reply) ==
    LET waiting == {k \in 1..Len(bg) : bg[k].pc = "ai"}
        last == IF waiting = {} THEN run.x[1]
                ELSE runs[CHOOSE k \in waiting : \A j \in waiting : j <= k].x[1]
    IN TaskFinish(rows, task, run,
                  [ExtractOnReply(last, reply) EXCEPT !.reply = <<reply>>])

\* the reply arrives; extract_metadata returns and the task runs to its end
TaskOnReply(rows, task, run, reply) ==
    TaskFinish(rows, task, run,
               [ExtractOnReply(run.x[1], reply) EXCEPT !.reply = <<reply>>])

(***************************************************************************)
(* The inputs the services are driven with                                 *)
(***************************************************************************)

\* settings.openai_api_key: unset, set to the empty string, set
ApiKeys == {None, Some(""), Some("sk-test")}

\* (document_text, filename) pairs: signal in the text, in the filename only,
\* nowhere, beyond the request's prefix, and in both with different labels
ExtractInputs == {
    [document_text |-> [pad |-> 0, body |-> "NDA governed by UAE, Gulf software"],
     filename |-> "contract.pdf"],
    [document_text |-> [pad |-> 0, body |-> "qqq zzz"], filename |-> "Acme_NDA.PDF"],
    [document_text |-> [pad |-> 0, body |-> "qqq zzz"], filename |-> "scan.pdf"],
    [document_text |-> [pad |-> 5990,
                        body |-> "Non-Disclosure governed by UAE Gulf Software"],
     filename |-> "scan.pdf"],
    [document_text |-> [pad |-> 0, body |-> "Master Service terms, laws of England"],
     filename |-> "license.docx"] }

FullMetadataJson ==
    JObj(<< <<"agreement_type", JStr("Franchise Agreement")>>,
            <<"governing_law", JStr("Delaware")>>,
            <<"jurisdiction", JStr("Delaware Courts")>>,
            <<"geography", JStr("North America")>>,
            <<"industry_sector", JNull>> >>)

PartialMetadataJson == JObj(<< <<"agreement_type", JStr("MSA")>> >>)

\* what the extraction request can come back with
ExtractReplies == {
    AIRaises,
    AINoContent,
    AIContent(<<>>),
    AIContent(<<Prose>>),
    AIContent(<<Prose, JsonText(FullMetadataJson)>>),
    AIContent(<<JsonText(FullMetadataJson)>>),
    AIContent(<<Prose, FenceJson, JsonText(FullMetadataJson), Fence, Prose>>),
    AIContent(<<Fence, JsonText(PartialMetadataJson), Fence>>),
    AIContent(<<JsonText(JObj(<<>>))>>),
    AIContent(<<JsonText(JObj(<< <<"summary", JStr("an agreement")>> >>))>>),
    AIContent(<<JsonText(JObj(<< <<"agreement_type", JNum("5")>> >>))>>),
    AIContent(<<JsonText(JArr(<<FullMetadataJson>>))>>),
    AIContent(<<JsonText(JStr("NDA"))>>),
    AIContent(<<JsonText(JNull)>>) }

\* a row of the documents table
Document(id, name, text, status, md) ==
    [id |-> id, original_filename |-> name, content_text |-> text,
     processing_status |-> status,
     agreement_type |-> md.agreement_type, governing_law |-> md.governing_law,
     jurisdiction |-> md.jurisdiction, geography |-> md.geography,
     industry_sector |-> md.industry_sector]

NoMetadata == DocumentMetadata(None, None, None, None, None, None)

NoText == [pad |-> 0, body |-> ""]

\* the documents table as the upload and background-processing code leaves
\* it: a row is created pending with empty text, has its text while
\* processing, and has its metadata (from either path) once completed
DbSnapshots == {
    <<>>,
    << Document(1, "new.pdf", NoText, "pending", NoMetadata),
       Document(2, "big.pdf", [pad |-> 0, body |-> "Supply terms, Dubai"],
                "processing", NoMetadata),
       Document(3, "broken.pdf", NoText, "failed", NoMetadata) >>,
    << Document(1, "nda_acme.pdf",
                [pad |-> 0, body |-> "NDA governed by UAE, Gulf software"],
                "completed",
                ExtractWithFallback("NDA governed by UAE, Gulf software",
                                    "nda_acme.pdf").metadata),
       Document(2, "new.pdf", NoText, "pending", NoMetadata),
       Document(3, "msa_uk.docx",
                [pad |-> 0, body |-> "Master Service terms, laws of England"],
                "completed",
                DocumentMetadata(Some("MSA"), Some("UK"), Some("England and Wales"),
                                 Some("Europe"), None, AIConfidenceScore)),
       Document(4, "broken.pdf", NoText, "failed", NoMetadata),
       Document(5, "blank.pdf", [pad |-> 0, body |-> "qqq zzz qqq zzz"],
                "completed",
                ExtractWithFallback("qqq zzz qqq zzz", "blank.pdf").metadata) >> }

Questions == {
    "Which agreements are governed by UAE law?",
    "What are the agreement types?",
    "Where is British business?" }

ResultJson(document, data) == JObj(<< <<"document", document>>, <<"data", data>> >>)

UaeResultJson ==
    ResultJson(JStr("nda_acme.pdf"), JObj(<< <<"governing_law", JStr("UAE")>> >>))

\* what the query request can come back with
QueryReplies == {
    AIRaises,
    AIContent(<<Prose>>),
    AIContent(<<FenceJson, JsonText(JArr(<<UaeResultJson>>)), Fence>>),
    AIContent(<<JsonText(JArr(<<>>))>>),
    AIContent(<<JsonText(UaeResultJson)>>),
    AIContent(<<JsonText(JStr("no match"))>>),
    AIContent(<<JsonText(JNum("0"))>>),
    AIContent(<<JsonText(JArr(<<JStr("nda_acme.pdf"),
                                JObj(<< <<"document", JStr("msa_uk.docx")>> >>),
                                UaeResultJson>>))>>),
    AIContent(<<JsonText(JArr(<<UaeResultJson,
                                ResultJson(JStr("msa_uk.docx"), JStr("UK"))>>))>>),
    AIContent(<<JsonText(JArr(<<ResultJson(JNull, JObj(<<>>))>>))>>) }

\* external AI requests after which no further call is started
MaxAICalls == 2

(***************************************************************************)
(* The state machine: the two services called one call at a time           *)
(***************************************************************************)

Init ==
    /\ openai_api_key \in ApiKeys
    /\ extractor_client = MakeClient(openai_api_key)
    /\ query_client = MakeClient(openai_api_key)
    /\ db \in DbSnapshots
    /\ x = IdleExtract
    /\ q = IdleQuery
    /\ total_ai_calls = 0
    /\ prev = <<>>
    /\ ApiIdle

\* no call is waiting for the AI and the call budget is not used up
CanCall == x.pc /= "ai" /\ q.pc /= "ai" /\ total_ai_calls < MaxAICalls

\* a caller invokes extract_metadata; it runs to its return or to the AI call
CallExtractMetadata ==
    /\ CanCall
    /\ \E inp \in ExtractInputs :
           x' = ExtractMetadata(inp.document_text, inp.filename,
                                extractor_client, openai_api_key)
    /\ q' = IdleQuery
    /\ total_ai_calls' = total_ai_calls + x'.ai_calls
    /\ UNCHANGED <<openai_api_key, extractor_client, query_client, db, prev>>
    /\ UNCHANGED apiVars

\* the extraction request comes back; extract_metadata runs on
ExtractReply ==
    /\ x.pc = "ai"
    /\ \E reply \in ExtractReplies :
           x' = [ExtractOnReply(x, reply) EXCEPT !.reply = <<reply>>]
    /\ total_ai_calls' = total_ai_calls + (x'.ai_calls - x.ai_calls)
    /\ UNCHANGED <<openai_api_key, extractor_client, query_client, db, q, prev>>
    /\ UNCHANGED apiVars

\* a caller invokes process_query; it runs to its return or to the AI call
CallProcessQuery ==
    /\ CanCall
    /\ \E question \in Questions :
           q' = ProcessQuery(question, db, query_client, openai_api_key)
    /\ x' = IdleExtract
    /\ total_ai_calls' = total_ai_calls + q'.ai_calls
    /\ UNCHANGED <<openai_api_key, extractor_client, query_client, db, prev>>
    /\ UNCHANGED apiVars

\* the query request comes back; process_query runs on
QueryReply ==
    /\ q.pc = "ai"
    /\ \E reply \in QueryReplies :
           q' = [QueryOnReply(q, reply) EXCEPT !.reply = <<reply>>]
    /\ total_ai_calls' = total_ai_calls + (q'.ai_calls - q.ai_calls)
    /\ UNCHANGED <<openai_api_key, extractor_client, query_client, db, x, prev>>
    /\ UNCHANGED apiVars

Next == CallExtractMetadata \/ ExtractReply \/ CallProcessQuery \/ QueryReply

Spec == Init /\ [][Next]_vars

(***************************************************************************)
(* The keyword extraction on its own: extract_metadata in a deployment     *)
(* without an AI credential, over texts and filenames in every pairing     *)
(***************************************************************************)

\* document bodies: no signal, one label, two labels in either order, law by
\* phrase and by bare keyword, and signals of several tables at once
FallbackBodies == {
    "",
    "Lorem ipsum dolor",
    "This LICENSE is granted",
    "Non-Disclosure and Master Service terms",
    "Master Service terms, then Non-Disclosure",
    "Governed by UAE law",
    "Our office is in Dubai",
    "Laws of England; office in Dubai",
    "Governed by Delaware law; office in Dubai",
    "Governed by the laws of Singapore",
    "Employment of staff in Europe for a bank",
    "Supply of oil in Asia under Delaware law",
    "Franchise partner, German law, Canada retail" }

\* filenames: no label, one label, two labels, mixed case
FallbackFilenames == {
    "contract.pdf",
    "scan001.pdf",
    "NDA_acme.pdf",
    "msa_nda.docx",
    "license.pdf",
    "Employment_Offer.docx",
    "partner_supply.pdf",
    "agenda.pdf",
    "Services Agreement.docx" }

\* settings.openai_api_key unset, no document stored, nothing called yet
FallbackInit ==
    /\ openai_api_key = None
    /\ extractor_client = MakeClient(None)
    /\ query_client = MakeClient(None)
    /\ db = <<>>
    /\ x = IdleExtract
    /\ q = IdleQuery
    /\ total_ai_calls = 0
    /\ prev = <<>>
    /\ ApiIdle

\* a caller invokes extract_metadata; without a client it runs to its return
FallbackExtract ==
    /\ \E body \in FallbackBodies, filename \in FallbackFilenames :
           x' = ExtractMetadata([pad |-> 0, body |-> body], filename,
                                extractor_client, openai_api_key)
    /\ UNCHANGED <<openai_api_key, extractor_client, query_client, db, q,
                   total_ai_calls, prev>>
    /\ UNCHANGED apiVars

FallbackNext == FallbackExtract

FallbackSpec == FallbackInit /\ [][FallbackNext]_vars

(***************************************************************************)
(* The keyword query on its own: process_query in a deployment without an  *)
(* AI credential, called again and again over one table                    *)
(***************************************************************************)

\* a completed row with the given metadata
Completed(id, name, at, gl, j, geo, ind) ==
    Document(id, name, [pad |-> 0, body |-> "terms"], "completed",
             DocumentMetadata(at, gl, j, geo, ind, AIConfidenceScore))

\* tables: one document with a type and nothing else; documents of either
\* extraction path beside an unprocessed one; documents lacking a type; a
\* document whose AI reply gave empty strings; two documents in both orders
FallbackDbSnapshots == {
    << Completed(1, "nda_only.pdf", Some("NDA"), None, None, None, None) >>,
    << Completed(1, "nda_acme.pdf", Some("NDA"), Some("UAE"), Some("UAE"),
                 Some("Middle East"), Some("Technology")),
       Completed(2, "msa_uk.docx", Some("MSA"), Some("UK"), Some("England and Wales"),
                 Some("Europe"), None),
       Document(3, "new.pdf", NoText, "pending", NoMetadata),
       Completed(4, "blank.pdf", None, None, None, None, None) >>,
    << Completed(1, "supply_rig.pdf", Some("Supply Agreement"), None, None,
                 Some("Asia-Pacific"), Some("Oil & Gas")),
       Completed(2, "untyped.pdf", None, Some("Delaware"), Some("Delaware"), None,
                 Some("Energy")) >>,
    << Completed(1, "sparse.pdf", Some(""), Some("UAE"), Some(""),
                 Some("Middle East"), Some("Technology")),
       Completed(2, "msa_tech.docx", Some("MSA"), Some("UAE"), Some("Dubai Courts"),
                 None, Some("Technology")) >>,
    << Completed(1, "msa_uk.docx", Some("MSA"), Some("UK"), Some("England and Wales"),
                 Some("Europe"), None),
       Completed(2, "nda_acme.pdf", Some("NDA"), Some("UAE"), Some("UAE"),
                 Some("Middle East"), Some("Technology")) >> }

\* questions: each trigger row and each field's keywords, alone and together
FallbackQuestions == {
    "Which agreements are governed by UAE law?",
    "What are the agreement types?",
    "Where is British business?",
    "List NDA contracts in the technology sector",
    "Any MSA for oil and gas? Which court?",
    "Summarize everything",
    "Legal dispute in Dubai",
    "Energy industry in England region" }

\* settings.openai_api_key unset, a table of documents, nothing called yet
QueryFallbackInit ==
    /\ openai_api_key = None
    /\ extractor_client = MakeClient(None)
    /\ query_client = MakeClient(None)
    /\ db \in FallbackDbSnapshots
    /\ x = IdleExtract
    /\ q = IdleQuery
    /\ total_ai_calls = 0
    /\ prev = <<>>
    /\ ApiIdle

\* a caller invokes process_query; without a client it runs to its return,
\* and the call that had returned before it is remembered
FallbackQuery ==
    /\ \E question \in FallbackQuestions :
           q' = ProcessQuery(question, db, query_client, openai_api_key)
    /\ prev' = IF q.pc = "done" THEN <<q>> ELSE <<>>
    /\ UNCHANGED <<openai_api_key, extractor_client, query_client, db, x,
                   total_ai_calls>>
    /\ UNCHANGED apiVars

QueryFallbackNext == FallbackQuery

QueryFallbackSpec == QueryFallbackInit /\ [][QueryFallbackNext]_vars

(***************************************************************************)
(* validate_file on its own, over files of every kind                      *)
(***************************************************************************)

\* paths: the allowed extensions in either case, others, none, a dot first
\* in the name, a dot in a directory only
ValidatePaths == {
    "/tmp/test.pdf", "/tmp/large.PDF", "/tmp/deal.docx", "/tmp/notes.txt",
    "/tmp/scan.pdf.zip", "/tmp/.pdf", "/tmp/noext", "/tmp/v1.2/contract" }

\* sizes in bytes around the smaller limit
ValidateSizes == {0, 500, 501, 1000}

\* max_size: the test's limit and a megabyte
ValidateMaxSizes == {500, 1048576}

ValidateFiles ==
    {MissingFile(p) : p \in ValidatePaths}
    \cup {StoredFile(p, n) : p \in ValidatePaths, n \in ValidateSizes}
    \cup {VanishingFile(p, n) : p \in ValidatePaths, n \in {1000}}

ValidateInit ==
    /\ openai_api_key = None
    /\ extractor_client = MakeClient(None)
    /\ query_client = MakeClient(None)
    /\ db = <<>>
    /\ x = IdleExtract
    /\ q = IdleQuery
    /\ total_ai_calls = 0
    /\ prev = <<>>
    /\ ApiIdle

\* a caller invokes validate_file
CallValidateFile ==
    /\ \E file \in ValidateFiles, max_size \in ValidateMaxSizes,
          repr \in AllowedExtensionsReprs :
           vf' = [pc |-> "done", file |-> file, max_size |-> max_size, raised |-> "",
                  result |-> <<ValidateFile(file, max_size, repr)>>]
    /\ UNCHANGED <<openai_api_key, extractor_client, query_client, db, x, q,
                   total_ai_calls, prev, disk, bg, up, runs>>

ValidateNext == CallValidateFile

ValidateSpec == ValidateInit /\ [][ValidateNext]_vars

(***************************************************************************)
(* The upload endpoint on its own: requests of one to three files, with    *)
(* allowed and other extensions, small and oversized, saved and not        *)
(***************************************************************************)

\* what the text libraries find in the uploaded contracts
NdaText ==
    [pad |-> 0,
     body |-> "This Non-Disclosure Agreement is governed by the laws of the UAE."]

MsaText ==
    [pad |-> 0,
     body |-> "Master Service Agreement for software governed by the laws of England."]

\* the files of the upload requests
PdfUpload == UploadFile("nda_acme.pdf", 2048, FileContent(TRUE, NdaText), "ok")

DocxUpload == UploadFile("MSA_UK.DOCX", 4096, FileContent(TRUE, MsaText), "ok")

TxtUpload == UploadFile("test.txt", 12, FileContent(FALSE, [pad |-> 0, body |-> ""]), "ok")

NoExtUpload == UploadFile("README", 12, FileContent(FALSE, [pad |-> 0, body |-> ""]), "ok")

DotUpload == UploadFile(".pdf", 2048, FileContent(TRUE, NdaText), "ok")

ZipUpload ==
    UploadFile("scan.pdf.ZIP", MaxFileSize + 1, FileContent(FALSE, [pad |-> 0, body |-> ""]), "ok")

HugeUpload == UploadFile("huge.pdf", MaxFileSize + 1, FileContent(TRUE, NdaText), "ok")

LimitUpload == UploadFile("limit.pdf", MaxFileSize, FileContent(TRUE, NdaText), "ok")

UnsavedUpload == UploadFile("unsaved.docx", 4096, FileContent(TRUE, MsaText), "open_fails")

PartialUpload == UploadFile("partial.pdf", 2048, FileContent(TRUE, NdaText), "write_fails")

PartialTxtUpload ==
    UploadFile("partial.txt", 12, FileContent(FALSE, [pad |-> 0, body |-> ""]), "write_fails")

UploadRequests == {
    <<>>,
    <<PdfUpload>>, <<DocxUpload>>, <<TxtUpload>>, <<NoExtUpload>>, <<DotUpload>>,
    <<ZipUpload>>, <<HugeUpload>>, <<LimitUpload>>, <<UnsavedUpload>>,
    <<PartialUpload>>, <<PartialTxtUpload>>,
    <<TxtUpload, PdfUpload>>, <<PdfUpload, TxtUpload>>, <<TxtUpload, NoExtUpload>>,
    <<DocxUpload, ZipUpload, PdfUpload>>, <<HugeUpload, DotUpload>>,
    <<PartialTxtUpload, DocxUpload>>, <<TxtUpload, UnsavedUpload, LimitUpload>> }

\* the number of stored files up to which requests are made
MaxStored == 3

UploadInit ==
    /\ openai_api_key = None
    /\ extractor_client = MakeClient(None)
    /\ query_client = MakeClient(None)
    /\ db = <<>>
    /\ x = IdleExtract
    /\ q = IdleQuery
    /\ total_ai_calls = 0
    /\ prev = <<>>
    /\ ApiIdle

\* a client posts files to /upload; the handler runs to its response
CallUploadDocuments ==
    /\ \E files \in UploadRequests :
           /\ Cardinality(disk) + Len(files) <= MaxStored
           /\ LET r == UploadDocuments(files, db, disk, bg)
              IN /\ db' = r.st.db
                 /\ disk' = r.st.disk
                 /\ bg' = r.st.bg
                 /\ up' = r.up
                 /\ runs' = NewRuns(runs, r.st.bg)
    /\ UNCHANGED <<openai_api_key, extractor_client, query_client, x, q,
                   total_ai_calls, prev, vf>>

UploadNext == CallUploadDocuments

UploadSpec == UploadInit /\ [][UploadNext]_vars

(***************************************************************************)
(* Upload, background processing and queries together: every background    *)
(* task is split at its commits and at its wait for the AI reply, and the  *)
(* steps of the tasks and of a query interleave freely                     *)
(***************************************************************************)

\* a scanned PDF: the libraries find next to no text in it
ScanUpload ==
    UploadFile("scan_2019.pdf", 2048, FileContent(TRUE, [pad |-> 0, body |-> "Page 1"]), "ok")

\* the upload requests, each made once
PipelineRequests == { <<PdfUpload, ScanUpload>>, <<DocxUpload>> }

\* the background tasks there can be: one for each file of the requests
PipelineTasks == 1..3

PipelineExtractReplies == { AIRaises, AIContent(<<JsonText(FullMetadataJson)>>) }

PipelineQuestions == { "Which agreements are governed by UAE law?",
                       "What are the agreement types?" }

PipelineQueryReplies == { AIRaises, AIContent(<<JsonText(JArr(<<UaeResultJson>>))>>) }

PipelineInit ==
    /\ openai_api_key \in {None, Some("sk-test")}
    /\ extractor_client = MakeClient(openai_api_key)
    /\ query_client = MakeClient(openai_api_key)
    /\ db = <<>>
    /\ x = IdleExtract
    /\ q = IdleQuery
    /\ total_ai_calls = 0
    /\ prev = <<>>
    /\ ApiIdle

\* a client posts one of the requests; the handler runs to its response and
\* leaves the tasks of the stored files scheduled
PipelineUpload ==
    /\ \E files \in PipelineRequests :
           /\ \A i \in 1..Len(files), k \in 1..Len(db) :
                  db[k].original_filename /= files[i].filename
           /\ LET r == UploadDocuments(files, db, disk, bg)
              IN /\ db' = r.st.db
                 /\ disk' = r.st.disk
                 /\ bg' = r.st.bg
                 /\ up' = r.up
                 /\ runs' = NewRuns(runs, r.st.bg)
    /\ UNCHANGED <<openai_api_key, extractor_client, query_client, x, q,
                   total_ai_calls, prev, vf>>

\* task k starts: the document is looked up and committed as "processing"
BgStart(k) ==
    /\ k \in 1..Len(bg)
    /\ bg[k].pc = "scheduled"
    /\ LET r == TaskStart(db, bg[k], runs[k])
       IN /\ db' = r.db
          /\ bg' = [bg EXCEPT ![k] = r.task]
          /\ runs' = [runs EXCEPT ![k] = r.run]
    /\ UNCHANGED <<openai_api_key, extractor_client, query_client, x, q,
                   total_ai_calls, prev, vf, disk, up>>

\* task k extracts the text and commits it, or commits the failure
BgExtractText(k) ==
    /\ k \in 1..Len(bg)
    /\ bg[k].pc = "started"
    /\ LET r == TaskExtractText(db, disk, bg[k], runs[k])
       IN /\ db' = r.db
          /\ bg' = [bg EXCEPT ![k] = r.task]
          /\ runs' = [runs EXCEPT ![k] = r.run]
    /\ UNCHANGED <<openai_api_key, extractor_client, query_client, x, q,
                   total_ai_calls, prev, vf, disk, up>>

\* task k calls extract_metadata; on the fallback path it runs to its end
BgExtractMetadata(k) ==
    /\ k \in 1..Len(bg)
    /\ bg[k].pc = "extracted"
    /\ LET r == TaskExtractMetadata(db, bg[k], runs[k], extractor_client, openai_api_key)
       IN /\ db' = r.db
          /\ bg' = [bg EXCEPT ![k] = r.task]
          /\ runs' = [runs EXCEPT ![k] = r.run]
    /\ UNCHANGED <<openai_api_key, extractor_client, query_client, x, q,
                   total_ai_calls, prev, vf, disk, up>>

\* the reply to task k's extraction request arrives; the task runs to its end
BgReply(k) ==
    /\ k \in 1..Len(bg)
    /\ bg[k].pc = "ai"
    /\ \E reply \in PipelineExtractReplies :
           LET r == TaskOnReply(db, bg[k], runs[k], reply)
           IN /\ db' = r.db
              /\ bg' = [bg EXCEPT ![k] = r.task]
              /\ runs' = [runs EXCEPT ![k] = r.run]
    /\ UNCHANGED <<openai_api_key, extractor_client, query_client, x, q,
                   total_ai_calls, prev, vf, disk, up>>

\* a client posts a question; process_query runs to its return or to the AI
\* call
PipelineQuery ==
    /\ q.pc /= "ai"
    /\ \E question \in PipelineQuestions :
           q' = ProcessQuery(question, db, query_client, openai_api_key)
    /\ UNCHANGED <<openai_api_key, extractor_client, query_client, db, x,
                   total_ai_calls, prev>>
    /\ UNCHANGED apiVars

\* the reply to the query request arrives; process_query runs on
PipelineQueryReply ==
    /\ q.pc = "ai"
    /\ \E reply \in PipelineQueryReplies :
           q' = [QueryOnReply(q, reply) EXCEPT !.reply = <<reply>>]
    /\ UNCHANGED <<openai_api_key, extractor_client, query_client, db, x,
                   total_ai_calls, prev>>
    /\ UNCHANGED apiVars

\* a step of task k
BgStep(k) == BgStart(k) \/ BgExtractText(k) \/ BgExtractMetadata(k) \/ BgReply(k)

PipelineNext ==
    \/ PipelineUpload
    \/ \E k \in PipelineTasks : BgStep(k)
    \/ PipelineQuery
    \/ PipelineQueryReply

PipelineSpec == PipelineInit /\ [][PipelineNext]_vars

\* where a started task can be after its next step
NextPcs(pc) ==
    IF pc = "started" THEN {"extracted", "exit"}
    ELSE IF pc = "extracted" THEN {"ai", "exit"}
    ELSE IF pc = "ai" THEN {"exit"}
    ELSE {}

\* A started task takes its next step, as the positions of the tasks show
\* it. The steps that change `bg` this way are those of BgExtractText,
\* BgExtractMetadata and BgReply, and one of them is possible exactly when
\* a task is at "started", "extracted" or "ai".
BgAdvance ==
    \E k \in PipelineTasks :
        /\ k \in 1..Len(bg)
        /\ \E pc \in NextPcs(bg[k].pc) : bg' = [bg EXCEPT ![k].pc = pc]

\* The scheduling the tasks run under: a started task is run on by the
\* event loop, and the AI request of a task comes back (the client answers,
\* raises, or times out), so the started tasks do not stand still for ever
\* while one of them can take a step. There are finitely many tasks of
\* finitely many steps, so this lets every one of them run to its end.
PipelineLiveSpec ==
    /\ PipelineInit
    /\ [][PipelineNext]_vars
    /\ WF_bg(BgAdvance)

(***************************************************************************)
(* Properties                                                              *)
(***************************************************************************)

\* the AI call raised, or its response carried no content
ReplyIsError(reply) == reply.kind /= "content"

\* the reply text, fences removed, is not JSON
ReplyIsNotJson(reply) ==
    reply.kind = "content" /\ JsonLoads(StripFences(reply.segs)).exc /= ""

\* the JSON value of a reply whose text is JSON
ReplyJson(reply) == JsonLoads(StripFences(reply.segs)).value

\* no AI credential: the key is unset or empty
Unconfigured == openai_api_key = None \/ openai_api_key = Some("")

\* what extract_metadata returns on the fallback path for the call in x
FallbackOfExtract == ExtractWithFallback(Text(x.document_text), x.filename)

\* C1: extract_metadata never raises to its caller; whatever the AI call
\* does, a returned call has handed back one (metadata record, confidence)
\* pair.
C1_ExtractNeverRaises ==
    /\ x.raised = ""
    /\ x.pc = "done" =>
          /\ Len(x.result) = 1
          /\ DOMAIN x.result[1] = {"metadata", "confidence"}
          /\ DOMAIN x.result[1].metadata =
                {"agreement_type", "governing_law", "jurisdiction", "geography",
                 "industry_sector", "confidence_score"}

\* C1 witness: a call has returned after a reply that was JSON of the wrong
\* shape (an array), which fails inside the try with an AttributeError.
C1_Witness ==
    /\ x.pc = "done" /\ x.reply /= <<>>
    /\ x.reply[1].kind = "content" /\ ~ReplyIsNotJson(x.reply[1])
    /\ ReplyJson(x.reply[1]).t = "arr"

\* C2: when the AI path was taken and failed (the call raised, or the reply
\* was not JSON), the call returns exactly the fallback result for the whole
\* document text and the filename.
C2_FailureGivesFallback ==
    (/\ x.pc = "done" /\ x.reply /= <<>>
     /\ (ReplyIsError(x.reply[1]) \/ ReplyIsNotJson(x.reply[1])))
    => x.raised = "" /\ x.result = <<FallbackOfExtract>>

\* C2 witness: the AI path failed on a document longer than the request's
\* prefix whose keywords all lie beyond it, and the fallback found them.
C2_Witness ==
    /\ x.pc = "done" /\ x.reply /= <<>> /\ ReplyIsError(x.reply[1])
    /\ x.document_text.pad + Len(x.document_text.body) > TruncateLen
    /\ x.result[1].metadata.agreement_type = Some("NDA")

\* C3: the confidence is 0.85 exactly when the AI path produced the result
\* and 0.6 when the AI path was bypassed or failed, and the record's
\* confidence_score is the returned confidence.
C3_ConfidenceByPath ==
    x.pc = "done" =>
        /\ x.path \in {"ai", "fallback", "ai_failed_fallback"}
        /\ x.path = "ai" <=> x.result[1].confidence = 85
        /\ x.path \in {"fallback", "ai_failed_fallback"} <=> x.result[1].confidence = 60
        /\ x.path = "fallback" <=> x.ai_calls = 0
        /\ x.result[1].metadata.confidence_score = x.result[1].confidence

\* C3 witness: the AI path succeeded.
C3_Witness ==
    x.pc = "done" /\ x.path = "ai" /\ x.result[1].confidence = 85

\* what process_query returns on the fallback path for the call in q
FallbackOfQuery == ProcessWithFallback(q.question, q.documents)

\* C4: process_query never raises an AI error; when the AI call raised or
\* its reply was not JSON, it returns the fallback result for the same
\* question and documents.
C4_QueryFailureGivesFallback ==
    /\ q.raised = ""
    /\ (/\ q.pc = "done" /\ q.reply /= <<>>
        /\ (ReplyIsError(q.reply[1]) \/ ReplyIsNotJson(q.reply[1])))
       => q.result = <<FallbackOfQuery>>

\* C4 witness: the AI call raised and the fallback found matching documents.
C4_Witness ==
    /\ q.pc = "done" /\ q.reply = <<AIRaises>>
    /\ Len(q.result[1]) > 0

\* the JSON value is an object that has every metadata field
CarriesMetadataFields(v) ==
    v.t = "obj" /\ \A i \in 1..Len(MetadataFields) : HasKey(v, MetadataFields[i])

\* C5 as claimed: a reply that is not JSON, or is JSON but not an object
\* carrying the metadata fields, gives the fallback record with confidence
\* 0.6.
C5_Original ==
    (/\ x.pc = "done" /\ x.reply /= <<>> /\ x.reply[1].kind = "content"
     /\ (ReplyIsNotJson(x.reply[1]) \/ ~CarriesMetadataFields(ReplyJson(x.reply[1]))))
    => x.result = <<FallbackOfExtract>> /\ x.result[1].confidence = 60

\* C5 as amended: a reply that is not JSON, or is JSON but not an object,
\* gives the fallback record with confidence 0.6; an object whose metadata
\* fields are each a string, null or absent is accepted as the AI result,
\* the absent fields null, with confidence 0.85.
C5_NonObjectGivesFallback ==
    (x.pc = "done" /\ x.reply /= <<>> /\ x.reply[1].kind = "content") =>
        /\ (ReplyIsNotJson(x.reply[1]) \/ ReplyJson(x.reply[1]).t /= "obj")
           => x.result = <<FallbackOfExtract>> /\ x.result[1].confidence = 60
        /\ (/\ ~ReplyIsNotJson(x.reply[1])
            /\ ReplyJson(x.reply[1]).t = "obj"
            /\ \A i \in 1..Len(MetadataFields) :
                   HasKey(ReplyJson(x.reply[1]), MetadataFields[i]) =>
                       GetItem(ReplyJson(x.reply[1]), MetadataFields[i]).t
                           \in {"str", "null"})
           => /\ x.result[1].confidence = 85
              /\ \A i \in 1..Len(MetadataFields) :
                     ~HasKey(ReplyJson(x.reply[1]), MetadataFields[i]) =>
                         x.result[1].metadata[MetadataFields[i]] = None

\* C5 witness: the reply was a JSON string, and the fallback record came back.
C5_Witness ==
    /\ x.pc = "done" /\ x.reply /= <<>> /\ x.reply[1].kind = "content"
    /\ ~ReplyIsNotJson(x.reply[1]) /\ ReplyJson(x.reply[1]).t = "str"
    /\ x.result[1].confidence = 60

\* C6 as claimed, for the shapes it names: a reply that is not JSON, or is
\* JSON but not an array (a single object, a string), gives the fallback
\* result for the same question and documents.
C6_Original ==
    (/\ q.pc = "done" /\ q.reply /= <<>> /\ q.reply[1].kind = "content"
     /\ (ReplyIsNotJson(q.reply[1]) \/ ReplyJson(q.reply[1]).t /= "arr"))
    => q.result = <<FallbackOfQuery>>

\* C7: one invocation issues at most one AI call and runs the fallback at
\* most once; a fallback after a failed AI call follows exactly one call,
\* and the total of calls grows by at most one per invocation.
C7_AtMostOneAICall ==
    /\ x.ai_calls <= 1 /\ q.ai_calls <= 1
    /\ x.fallback_runs <= 1 /\ q.fallback_runs <= 1
    /\ x.path = "ai_failed_fallback" => x.ai_calls = 1 /\ x.fallback_runs = 1
    /\ q.path = "ai_failed_fallback" => q.ai_calls = 1 /\ q.fallback_runs = 1
    /\ x.path = "ai" => x.fallback_runs = 0
    /\ q.path = "ai" => q.fallback_runs = 0

\* C7 witness: a query's AI call failed, the fallback ran once, and it was
\* the second invocation to call the AI.
C7_Witness ==
    /\ q.pc = "done" /\ q.path = "ai_failed_fallback"
    /\ q.ai_calls = 1 /\ q.fallback_runs = 1 /\ total_ai_calls = 2

\* C8: with no AI credential no request is ever issued or in flight, and
\* every returned call returns what the fallback path computes.
C8_UnconfiguredNeverCalls ==
    Unconfigured =>
        /\ total_ai_calls = 0 /\ x.ai_calls = 0 /\ q.ai_calls = 0
        /\ x.pc /= "ai" /\ q.pc /= "ai"
        /\ x.request = <<>> /\ q.request = <<>>
        /\ x.pc = "done" => x.path = "fallback" /\ x.result = <<FallbackOfExtract>>
        /\ q.pc = "done" => q.path \in {"fallback", "empty"}
                            /\ q.result = <<FallbackOfQuery>>

\* C8 witness: the key is the empty string and a query returned fallback
\* results.
C8_Witness ==
    /\ openai_api_key = Some("") /\ q.pc = "done" /\ q.path = "fallback"
    /\ Len(q.result[1]) > 0

\* no row of the table is completed
NoneCompleted == \A i \in 1..Len(db) : db[i].processing_status /= "completed"

\* C9: a query over a table with no completed document returns the empty
\* list and issues no AI call, configured or not.
C9_EmptyGivesEmpty ==
    (q.pc /= "idle" /\ NoneCompleted) =>
        /\ q.pc = "done" /\ q.raised = ""
        /\ q.result = << <<>> >>
        /\ q.ai_calls = 0 /\ q.request = <<>>

\* C9 witness: an AI client is configured, the table holds rows but none
\* completed, and a query returned.
C9_Witness ==
    /\ ~Unconfigured /\ Len(db) > 0 /\ NoneCompleted
    /\ q.pc = "done" /\ q.result = << <<>> >>

TextLower == Lower(Text(x.document_text))

FilenameLower == Lower(x.filename)

\* the call in x returned from the keyword fallback
FallbackReturned ==
    x.pc = "done" /\ x.path \in {"fallback", "ai_failed_fallback"}

\* C11: the fallback agreement type is the first label, in the order NDA,
\* MSA, Service Agreement, Employment Contract, Franchise Agreement,
\* Licensing Agreement, Supply Agreement, Partnership Agreement, with a
\* keyword in the lowercased filename; failing that the first label with a
\* keyword in the lowercased text; failing that null.  A filename with
\* "nda" gives NDA whatever the text, and a text with both "non-disclosure"
\* and "master service" under a filename without a label gives NDA.
C11_AgreementTypeByPriority ==
    FallbackReturned =>
        LET labels == <<"NDA", "MSA", "Service Agreement", "Employment Contract",
                        "Franchise Agreement", "Licensing Agreement",
                        "Supply Agreement", "Partnership Agreement">>
            Has(i, s) == \E r \in 1..Len(agreement_patterns) :
                             /\ agreement_patterns[r][1] = labels[i]
                             /\ AnyKeywordIn(agreement_patterns[r][2], s)
            First(s) == IF \E i \in 1..Len(labels) : Has(i, s)
                        THEN Some(labels[CHOOSE i \in 1..Len(labels) :
                                             /\ Has(i, s)
                                             /\ \A j \in 1..(i - 1) : ~Has(j, s)])
                        ELSE None
            got == x.result[1].metadata.agreement_type
        IN /\ got = IF First(FilenameLower) /= None THEN First(FilenameLower)
                    ELSE First(TextLower)
           /\ Contains("nda", FilenameLower) => got = Some("NDA")
           /\ (/\ First(FilenameLower) = None
               /\ Contains("non-disclosure", TextLower)
               /\ Contains("master service", TextLower)) => got = Some("NDA")

\* C11 witness: the filename has "nda", the text only a licensing keyword,
\* and the type detected is NDA.
C11_Witness ==
    /\ FallbackReturned
    /\ x.filename = "NDA_acme.pdf"
    /\ x.document_text.body = "This LICENSE is granted"
    /\ x.result[1].metadata.agreement_type = Some("NDA")

\* C12: the fallback governing law is the first label, in the order UAE, UK,
\* Delaware, New York, California, Singapore, Germany, for which the text
\* has "governed by <keyword>", "laws of <keyword>" or the bare keyword;
\* null when no label has a match.  "governed by uae" and a bare "dubai"
\* both give UAE.
C12_GoverningLawByOrder ==
    FallbackReturned =>
        LET labels == <<"UAE", "UK", "Delaware", "New York", "California",
                        "Singapore", "Germany">>
            Has(i) == \E r \in 1..Len(law_patterns) :
                          /\ law_patterns[r][1] = labels[i]
                          /\ \E k \in 1..Len(law_patterns[r][2]) :
                                 \/ Contains("governed by " \o law_patterns[r][2][k],
                                             TextLower)
                                 \/ Contains("laws of " \o law_patterns[r][2][k],
                                             TextLower)
                                 \/ Contains(law_patterns[r][2][k], TextLower)
            got == x.result[1].metadata.governing_law
        IN /\ got = IF \E i \in 1..Len(labels) : Has(i)
                    THEN Some(labels[CHOOSE i \in 1..Len(labels) :
                                         Has(i) /\ \A j \in 1..(i - 1) : ~Has(j)])
                    ELSE None
           /\ Contains("governed by uae", TextLower) => got = Some("UAE")
           /\ Contains("dubai", TextLower) => got = Some("UAE")

\* C12 witness: the text names England by phrase and Dubai in passing, and
\* the law detected is UAE, the earlier label.
C12_Witness ==
    /\ FallbackReturned
    /\ Contains("laws of england", TextLower) /\ Contains("dubai", TextLower)
    /\ x.result[1].metadata.governing_law = Some("UAE")

\* C13: in every record of the fallback path jurisdiction equals
\* governing_law, null included.
C13_JurisdictionMirrorsLaw ==
    FallbackReturned =>
        x.result[1].metadata.jurisdiction = x.result[1].metadata.governing_law

\* C13 witness: the fallback detected a governing law and the jurisdiction
\* carries it.
C13_Witness ==
    /\ FallbackReturned
    /\ x.result[1].metadata.governing_law = Some("Singapore")
    /\ x.result[1].metadata.jurisdiction = Some("Singapore")

\* no keyword of any of the four tables is in s
NoKeywordIn(s) ==
    \A table \in {agreement_patterns, law_patterns, geo_patterns, industry_patterns} :
        \A r \in 1..Len(table) : ~AnyKeywordIn(table[r][2], s)

\* C14: when neither the text nor the filename has a keyword of any table,
\* the fallback record has agreement_type, governing_law, jurisdiction,
\* geography and industry_sector null and the confidence is 0.6.
C14_NoSignalGivesNulls ==
    (FallbackReturned /\ NoKeywordIn(TextLower) /\ NoKeywordIn(FilenameLower)) =>
        /\ x.result[1].metadata =
               [agreement_type |-> None, governing_law |-> None,
                jurisdiction |-> None, geography |-> None,
                industry_sector |-> None, confidence_score |-> 60]
        /\ x.result[1].confidence = 60

\* C14 witness: a text of plain words under a scan's filename came back from
\* the fallback.
C14_Witness ==
    /\ FallbackReturned
    /\ x.document_text.body = "Lorem ipsum dolor" /\ x.filename = "scan001.pdf"
    /\ NoKeywordIn(TextLower) /\ NoKeywordIn(FilenameLower)

\* the lowercased question the fallback of the call in q works on
QuestionLower == Lower(q.question)

\* the call in q returned from the keyword fallback
QueryFallbackReturned ==
    q.pc = "done" /\ q.path \in {"fallback", "ai_failed_fallback"}

\* the returned list has a result for the document
InResult(doc) ==
    \E k \in 1..Len(q.result[1]) : q.result[1][k].document = doc.original_filename

\* C15: a document is left out of the fallback result when a trigger row
\* fires on the lowercased question and the document's field fails it, each
\* of the six rows on its own; a null field fails its row; a document that
\* fails no firing row and has its agreement type is returned.  For "Which
\* agreements are governed by UAE law?" a document with law "UK" is left out
\* and one with law "UAE" is returned.
C15_TriggerRowsFilter ==
    QueryFallbackReturned =>
        LET rows == << <<{"uae", "emirates", "dubai"}, "governing_law", {"uae"}>>,
                       <<{"uk", "england", "british"}, "governing_law", {"uk"}>>,
                       <<{"nda", "non-disclosure"}, "agreement_type", {"nda"}>>,
                       <<{"msa", "master service"}, "agreement_type", {"msa"}>>,
                       <<{"technology", "tech", "software"}, "industry_sector",
                         {"technology"}>>,
                       <<{"oil", "gas", "energy"}, "industry_sector",
                         {"oil", "gas", "energy"}>> >>
            Fires(r) == \E t \in rows[r][1] : Contains(t, QuestionLower)
            Fails(doc, r) ==
                \/ doc[rows[r][2]] = None
                \/ \A n \in rows[r][3] : ~Contains(n, Lower(doc[rows[r][2]][1]))
            Excluded(doc) == \E r \in 1..Len(rows) : Fires(r) /\ Fails(doc, r)
        IN \A i \in 1..Len(q.documents) :
               LET doc == q.documents[i]
               IN /\ Excluded(doc) => ~InResult(doc)
                  /\ (~Excluded(doc) /\ Truthy(doc.agreement_type)) => InResult(doc)
                  /\ q.question = "Which agreements are governed by UAE law?" =>
                        /\ doc.governing_law = Some("UK") => ~InResult(doc)
                        /\ doc.governing_law = Some("UAE") => InResult(doc)

\* C15 witness: for the UAE question over a table with a UK and a UAE
\* document, one result came back.
C15_Witness ==
    /\ QueryFallbackReturned
    /\ q.question = "Which agreements are governed by UAE law?"
    /\ \E i \in 1..Len(q.documents) : q.documents[i].governing_law = Some("UK")
    /\ \E i \in 1..Len(q.documents) : q.documents[i].governing_law = Some("UAE")
    /\ Len(q.result[1]) = 1

\* the key the result data uses for a metadata field
TitleOfField ==
    [agreement_type |-> "Agreement Type", governing_law |-> "Governing Law",
     jurisdiction |-> "Jurisdiction", geography |-> "Geography",
     industry_sector |-> "Industry Sector"]

\* the fields the claims say a lowercased question requests
RequestedByKeywords(ql) ==
    LET HasOne(S) == \E t \in S : Contains(t, ql)
    IN {"agreement_type"}
       \cup (IF HasOne({"law", "governed", "governing", "jurisdiction", "legal"})
             THEN {"governing_law"} ELSE {})
       \cup (IF HasOne({"jurisdiction", "court", "dispute", "legal"})
             THEN {"jurisdiction"} ELSE {})
       \cup (IF HasOne({"geography", "region", "location", "country", "where"})
             THEN {"geography"} ELSE {})
       \cup (IF HasOne({"industry", "sector", "business", "field"})
             THEN {"industry_sector"} ELSE {})

\* C16: the fields requested for a question are agreement_type always,
\* governing_law, jurisdiction, geography and industry_sector each exactly
\* when the lowercased question has one of its keywords, and nothing else;
\* a returned document with all five fields set shows exactly those.
C16_IntentFields ==
    QueryFallbackReturned =>
        /\ AnalyzeQuestionIntent(QuestionLower) = RequestedByKeywords(QuestionLower)
        /\ \A k \in 1..Len(q.result[1]) :
               \A i \in 1..Len(q.documents) :
                   (/\ q.documents[i].original_filename = q.result[1][k].document
                    /\ \A f \in DOMAIN TitleOfField : Truthy(q.documents[i][f]))
                   => DOMAIN q.result[1][k].data =
                          {TitleOfField[f] : f \in RequestedByKeywords(QuestionLower)}

\* C16 witness: a question with "legal" and "dispute" and no word for the
\* agreement type returned a document's type, law and jurisdiction.
C16_Witness ==
    /\ QueryFallbackReturned
    /\ q.question = "Legal dispute in Dubai"
    /\ \E k \in 1..Len(q.result[1]) :
           DOMAIN q.result[1][k].data =
               {"Agreement Type", "Governing Law", "Jurisdiction"}

\* the data map the claims describe for a document, given which of its
\* requested fields count as present
DataOf(doc, present) ==
    [key \in {TitleOfField[f] : f \in present} |->
         JStr(doc[CHOOSE f \in present : TitleOfField[f] = key][1])]

\* C17 as claimed: each fallback result's data has exactly one entry per
\* requested field that is non-null on the document, keyed by the title-cased
\* field name and valued by the raw value.
C17_Original ==
    QueryFallbackReturned =>
        \A k \in 1..Len(q.result[1]) :
            \A i \in 1..Len(q.documents) :
                q.documents[i].original_filename = q.result[1][k].document =>
                    q.result[1][k].data =
                        DataOf(q.documents[i],
                               {f \in AnalyzeQuestionIntent(QuestionLower) :
                                    q.documents[i][f] /= None})

\* C17 as amended: each fallback result's data has exactly one entry per
\* requested field that is neither null nor the empty string on the
\* document, keyed by the title-cased field name and valued by the raw
\* value.  "What are the agreement types?" over one document with type NDA
\* and no other field gives one result with data {"Agreement Type": "NDA"}.
C17_DataPerSetField ==
    QueryFallbackReturned =>
        /\ \A k \in 1..Len(q.result[1]) :
               \A i \in 1..Len(q.documents) :
                   q.documents[i].original_filename = q.result[1][k].document =>
                       q.result[1][k].data =
                           DataOf(q.documents[i],
                                  {f \in AnalyzeQuestionIntent(QuestionLower) :
                                       /\ q.documents[i][f] /= None
                                       /\ q.documents[i][f] /= Some("")})
        /\ (/\ q.question = "What are the agreement types?"
            /\ Len(q.documents) = 1
            /\ q.documents[1].agreement_type = Some("NDA")
            /\ \A f \in DOMAIN TitleOfField \ {"agreement_type"} :
                   q.documents[1][f] = None)
           => /\ Len(q.result[1]) = 1
              /\ q.result[1][1].document = q.documents[1].original_filename
              /\ q.result[1][1].data = [key \in {"Agreement Type"} |-> JStr("NDA")]

\* C17 witness: the agreement-types question over the one document with
\* only a type returned its type.
C17_Witness ==
    /\ QueryFallbackReturned
    /\ q.question = "What are the agreement types?"
    /\ Len(q.documents) = 1
    /\ q.result[1] = <<[document |-> "nda_only.pdf",
                        data |-> [key \in {"Agreement Type"} |-> JStr("NDA")]]>>

\* C18: no fallback result has an empty data map, and a document with none
\* of the requested fields set is not in the result.
C18_NoEmptyData ==
    QueryFallbackReturned =>
        /\ \A k \in 1..Len(q.result[1]) : DOMAIN q.result[1][k].data /= {}
        /\ \A i \in 1..Len(q.documents) :
               (\A f \in RequestedByKeywords(QuestionLower) :
                    q.documents[i][f] = None \/ q.documents[i][f] = Some(""))
               => ~InResult(q.documents[i])

\* C18 witness: a question with no trigger term ran over a table with a
\* document that has no metadata; others came back, it did not.
C18_Witness ==
    /\ QueryFallbackReturned
    /\ q.question = "What are the agreement types?"
    /\ \E i \in 1..Len(q.documents) :
           /\ \A f \in DOMAIN TitleOfField : q.documents[i][f] = None
           /\ ~InResult(q.documents[i])
    /\ Len(q.result[1]) > 0

AcceptedAndValid(item) ==
    /\ item.t = "obj" /\ HasKey(item, "document") /\ HasKey(item, "data")
    /\ GetItem(item, "document").t = "str" /\ GetItem(item, "data").t = "obj"

\* the element passes the key test and fails QueryResult's types
AcceptedAndInvalid(item) ==
    /\ item.t = "obj" /\ HasKey(item, "document") /\ HasKey(item, "data")
    /\ ~(GetItem(item, "document").t = "str" /\ GetItem(item, "data").t = "obj")

\* C20: when the reply array has an acceptable element followed by one that
\* makes the AI path fail, the returned list is exactly the fallback result
\* and has none of the elements built from the reply.
C20_NoPartialMerge ==
    (/\ q.pc = "done" /\ q.reply /= <<>> /\ q.reply[1].kind = "content"
     /\ ~ReplyIsNotJson(q.reply[1])
     /\ ReplyJson(q.reply[1]).t = "arr"
     /\ \E i, j \in 1..Len(ReplyJson(q.reply[1]).items) :
            /\ i < j
            /\ AcceptedAndValid(ReplyJson(q.reply[1]).items[i])
            /\ AcceptedAndInvalid(ReplyJson(q.reply[1]).items[j]))
    => /\ q.result = <<FallbackOfQuery>>
       /\ \A i \in 1..Len(ReplyJson(q.reply[1]).items) :
              LET item == ReplyJson(q.reply[1]).items[i]
              IN AcceptedAndValid(item) =>
                     \A k \in 1..Len(q.result[1]) :
                         q.result[1][k] /=
                             [document |-> GetItem(item, "document").s,
                              data |-> [key \in Keys(GetItem(item, "data")) |->
                                            GetItem(GetItem(item, "data"), key)]]

\* C20 witness: the reply's first element was acceptable, its second had
\* data that is a string, and the fallback's results came back.
C20_Witness ==
    /\ q.pc = "done" /\ q.path = "ai_failed_fallback"
    /\ q.reply /= <<>> /\ q.reply[1].kind = "content"
    /\ ~ReplyIsNotJson(q.reply[1])
    /\ ReplyJson(q.reply[1]).t = "arr"
    /\ Len(ReplyJson(q.reply[1]).items) = 2
    /\ AcceptedAndValid(ReplyJson(q.reply[1]).items[1])
    /\ AcceptedAndInvalid(ReplyJson(q.reply[1]).items[2])
    /\ Len(q.result[1]) > 0

\* the elements of a reply array that are objects with both keys, in order
ObjectsWithBothKeys(items) ==
    SelectSeq(items, LAMBDA item : /\ item.t = "obj"
                                   /\ HasKey(item, "document")
                                   /\ HasKey(item, "data"))

\* C24: when the AI path of process_query returns, the list is the elements
\* of the reply array that are objects with a "document" and a "data" key,
\* in array order; an element that is not an object or lacks a key is
\* dropped and does not send the call to the fallback.
C24_KeepsObjectsWithBothKeys ==
    (/\ q.pc = "done" /\ q.reply /= <<>> /\ q.reply[1].kind = "content"
     /\ ~ReplyIsNotJson(q.reply[1])
     /\ ReplyJson(q.reply[1]).t = "arr")
    => LET items == ReplyJson(q.reply[1]).items
           kept == ObjectsWithBothKeys(items)
       IN /\ q.path = "ai" =>
                q.result[1] =
                    [i \in 1..Len(kept) |->
                        [document |-> GetItem(kept[i], "document").s,
                         data |-> [key \in Keys(GetItem(kept[i], "data")) |->
                                       GetItem(GetItem(kept[i], "data"), key)]]]
          /\ (\A i \in 1..Len(items) : ~AcceptedAndInvalid(items[i]))
             => q.path = "ai" /\ q.fallback_runs = 0

\* C24 witness: the reply array held a string, an object without "data" and
\* one acceptable object, and the AI path returned that one.
C24_Witness ==
    /\ q.pc = "done" /\ q.path = "ai"
    /\ q.reply /= <<>> /\ q.reply[1].kind = "content"
    /\ ~ReplyIsNotJson(q.reply[1])
    /\ ReplyJson(q.reply[1]).t = "arr"
    /\ Len(ReplyJson(q.reply[1]).items) = 3
    /\ ReplyJson(q.reply[1]).items[1].t = "str"
    /\ ~HasKey(ReplyJson(q.reply[1]).items[2], "data")
    /\ Len(q.result[1]) = 1

\* C25 as claimed: the document content in the extraction request is at
\* most 6000 characters long, and a document of at most 6000 characters is
\* sent unchanged.
C25_Original ==
    x.pc = "ai" =>
        /\ Len(x.request[1].content) <= 6000
        /\ Len(Text(x.document_text)) <= 6000
               => x.request[1].content = Text(x.document_text)

\* C25 as amended: a document of more than 6000 characters is sent as its
\* first 6000 characters followed by "...", 6003 characters in all, and a
\* document of at most 6000 characters is sent unchanged.
C25_PrefixAndEllipsis ==
    x.pc = "ai" =>
        /\ Len(x.request[1].content) <= 6003
        /\ Len(Text(x.document_text)) > 6000
               => x.request[1].content =
                      SubSeq(Text(x.document_text), 1, 6000) \o "..."
        /\ Len(Text(x.document_text)) <= 6000
               => x.request[1].content = Text(x.document_text)

\* C25 witness: a request is in flight for a document longer than 6000
\* characters and carries 6003.
C25_Witness ==
    /\ x.pc = "ai"
    /\ Len(Text(x.document_text)) > 6000
    /\ Len(x.request[1].content) = 6003

\* C26: the fallback governing law is the first label of the table with a
\* bare keyword in the lowercased text, whatever phrases the text has; a
\* passing "dubai" wins over "governed by delaware".
C26_PhraseCheckRedundant ==
    FallbackReturned =>
        LET hits == {r \in 1..Len(law_patterns) :
                         \E k \in 1..Len(law_patterns[r][2]) :
                             Contains(law_patterns[r][2][k], TextLower)}
            got == x.result[1].metadata.governing_law
        IN /\ got = IF hits = {} THEN None
                    ELSE Some(law_patterns[CHOOSE r \in hits :
                                               \A r2 \in hits : r <= r2][1])
           /\ (Contains("dubai", TextLower)
               /\ Contains("governed by delaware", TextLower)) => got = Some("UAE")

\* C26 witness: the text says "governed by delaware" and mentions Dubai, and
\* the law detected is UAE.
C26_Witness ==
    /\ FallbackReturned
    /\ Contains("governed by delaware", TextLower)
    /\ Contains("dubai", TextLower)
    /\ x.result[1].metadata.governing_law = Some("UAE")

\* C30: the fallback result is a sub-sequence of the input documents: there
\* is a strictly increasing choice of input positions, one per result, each
\* a document that passed the filter and whose original_filename the result
\* carries.
C30_ResultIsSubsequence ==
    QueryFallbackReturned =>
        \E pos \in [1..Len(q.result[1]) -> 1..Len(q.documents)] :
            /\ \A k \in 1..Len(q.result[1]) :
                   /\ q.result[1][k].document = q.documents[pos[k]].original_filename
                   /\ DocumentMatchesQuery(q.documents[pos[k]], QuestionLower)
            /\ \A k1, k2 \in 1..Len(q.result[1]) : k1 < k2 => pos[k1] < pos[k2]

\* C30 witness: three documents went in and the first two came back, in the
\* order they went in.
C30_Witness ==
    /\ QueryFallbackReturned
    /\ Len(q.documents) = 3
    /\ Len(q.result[1]) = 2
    /\ q.result[1][1].document = q.documents[1].original_filename
    /\ q.result[1][2].document = q.documents[2].original_filename

\* C23: validate_file never raises; it returns (True, None) exactly when the
\* file is there throughout, is no larger than max_size and has the suffix
\* .pdf or .docx in any case, and otherwise (False, message); a missing file
\* is reported first, then an oversize one as "exceeds maximum allowed size"
\* whatever its suffix, then an unsupported suffix.
C23_ValidateFile ==
    vf.pc = "done" =>
        LET there == vf.file.exists /\ ~vf.file.vanishes
            small == vf.file.size <= vf.max_size
            suffix == Lower(PathSuffix(vf.file.path))
            r == vf.result[1]
        IN /\ vf.raised = ""
           /\ r = [is_valid |-> TRUE, error |-> None]
                  <=> (there /\ small /\ suffix \in {".pdf", ".docx"})
           /\ r.is_valid = FALSE => r.error /= None /\ r.error[1] /= ""
           /\ r.is_valid = TRUE => r.error = None
           /\ ~vf.file.exists => r.error = Some("File not found")
           /\ (there /\ ~small) =>
                  Contains("exceeds maximum allowed size", r.error[1])
           /\ (there /\ small /\ suffix \notin {".pdf", ".docx"}) =>
                  Contains("Unsupported file format", r.error[1])

\* C23 witness: a file over the limit with a suffix that is not allowed was
\* reported as too large.
C23_Witness ==
    /\ vf.pc = "done"
    /\ vf.file.exists /\ ~vf.file.vanishes /\ vf.file.size > vf.max_size
    /\ Lower(PathSuffix(vf.file.path)) = ".txt"
    /\ vf.result[1].is_valid = FALSE
    /\ Contains("exceeds maximum allowed size", vf.result[1].error[1])


\* the lowercased extension of the uploaded file is not an allowed one
Unsupported(file) == Lower(SplitExt(file.filename)) \notin {".pdf", ".docx"}

\* the file of an upload request that is saved and within the size limit
Storable(file) == file.save = "ok" /\ file.size <= MaxFileSize

\* C22: An uploaded file whose lowercased extension is neither .pdf nor
\* .docx does not fail the request: the response has status 200 and lists
\* the file in failed_files with an error containing "Unsupported file
\* format"; no file on disk was written for it, no row and no background
\* task exist for it; and the other files of the request are still handled:
\* every file is answered in exactly one of the two lists, and a storable
\* file with an allowed extension gets its pending row and its task.
C22_UnsupportedExtensionSkipped ==
    (up.pc = "done" /\ Len(up.files) > 0) =>
        /\ up.status = 200
        /\ Len(up.uploaded_files) + Len(up.failed_files) = Len(up.files)
        /\ Len(bg) = Len(db)
        /\ \A i \in 1..Len(up.files) :
               LET file == up.files[i]
               IN /\ Unsupported(file) =>
                        /\ \E j \in 1..Len(up.failed_files) :
                               /\ up.failed_files[j].filename = file.filename
                               /\ Contains("Unsupported file format",
                                           up.failed_files[j].error)
                        /\ \A j \in 1..Len(up.uploaded_files) :
                               up.uploaded_files[j].original_filename /= file.filename
                        /\ \A f \in disk : f.original /= file.filename
                        /\ \A k \in 1..Len(db) :
                               db[k].original_filename /= file.filename
                        /\ \A k \in 1..Len(bg) :
                               db[bg[k].document_id].original_filename /= file.filename
                  /\ (~Unsupported(file) /\ Storable(file)) =>
                        \E j \in 1..Len(up.uploaded_files) :
                            LET id == up.uploaded_files[j].id
                            IN /\ up.uploaded_files[j].original_filename = file.filename
                               /\ db[id].original_filename = file.filename
                               /\ db[id].processing_status = "pending"
                               /\ \E k \in 1..Len(bg) : bg[k].document_id = id
                               /\ \E f \in disk : f.path = db[id].file_path

\* a request of a text file and a PDF was answered: the text file is in
\* failed_files, the PDF in uploaded_files
C22_Witness ==
    /\ up.pc = "done"
    /\ up.status = 200
    /\ up.files = <<TxtUpload, PdfUpload>>
    /\ Len(up.failed_files) = 1
    /\ Len(up.uploaded_files) = 1
    /\ Len(db) >= 1


\* extract_metadata run alone on its inputs, with the reply its request got
AloneExtract(document_text, filename, key, reply) ==
    LET f == ExtractMetadata(document_text, filename, MakeClient(key), key)
    IN IF f.pc = "ai" THEN ExtractOnReply(f, reply[1]) ELSE f

\* process_query run alone on a table, with the reply its request got
AloneQuery(question, rows, key, reply) ==
    LET f == ProcessQuery(question, rows, MakeClient(key), key)
    IN IF f.pc = "ai" THEN QueryOnReply(f, reply[1]) ELSE f

\* what a step does to the calls of extract_metadata and process_query
C21_Step ==
    /\ \A k \in 1..Len(bg) :
           /\ (bg[k].pc = "ai" /\ bg'[k].pc = "ai") => runs'[k] = runs[k]
           /\ (bg[k].pc \in {"extracted", "ai"} /\ bg'[k].pc = "exit") =>
                  LET f == runs'[k].x[1]
                      alone == AloneExtract(runs[k].text_content[1],
                                            db[k].original_filename,
                                            openai_api_key, f.reply)
                  IN /\ f.pc = "done"
                     /\ f.result = alone.result
                     /\ f.raised = alone.raised
                     /\ f.path = alone.path
    /\ (q.pc = "ai" /\ q'.pc = "ai") => q' = q
    /\ (q' /= q /\ q'.pc = "done") =>
           LET documents == IF q.pc = "ai" THEN q.documents
                            ELSE CompletedDocuments(db)
               alone == AloneQuery(q'.question, documents, openai_api_key, q'.reply)
           IN /\ q'.result = alone.result
              /\ q'.raised = alone.raised
              /\ q'.path = alone.path
    /\ <<openai_api_key, extractor_client, query_client>>' =
           <<openai_api_key, extractor_client, query_client>>

\* C21: Concurrent invocations of extract_metadata and process_query are
\* independent. Whatever the interleaving of the background tasks and the
\* query, a call that is waiting for its reply is left untouched by the
\* steps of the others, the client handles and the key are never written,
\* and a call that returns returns what the same call gives when run alone
\* on the same inputs (text and filename, or question and completed
\* documents) with the same reply.
C21_CallsIndependent == [][C21_Step]_vars

\* a query is waiting for its reply, and a task whose document the query
\* did not select has meanwhile got its own reply and completed
C21_Witness ==
    /\ q.pc = "ai"
    /\ Len(q.documents) > 0
    /\ \E k \in 1..Len(bg) :
           /\ bg[k].pc = "exit"
           /\ runs[k].x /= <<>>
           /\ runs[k].x[1].path = "ai"
           /\ db[k].processing_status = "completed"
           /\ \A i \in 1..Len(q.documents) : q.documents[i].id /= k

\* the metadata columns of a row
MetadataOfRow(d) ==
    [agreement_type |-> d.agreement_type, governing_law |-> d.governing_law,
     jurisdiction |-> d.jurisdiction, geography |-> d.geography,
     industry_sector |-> d.industry_sector]

\* the metadata columns extract_metadata returned
MetadataOfResult(r) ==
    [agreement_type |-> r.metadata.agreement_type,
     governing_law |-> r.metadata.governing_law,
     jurisdiction |-> r.metadata.jurisdiction,
     geography |-> r.metadata.geography,
     industry_sector |-> r.metadata.industry_sector]

\* C27: A query never observes a half-processed document. Every document
\* process_query selected is completed, its task is over, its five metadata
\* fields and its confidence are those extract_metadata returned in its
\* processing run, and it is the row as it stands in the table now.
C27_QuerySeesFinalMetadata ==
    \A i \in 1..Len(q.documents) :
        LET d == q.documents[i]
        IN /\ d.processing_status = "completed"
           /\ d.id \in 1..Len(bg)
           /\ bg[d.id].pc = "exit"
           /\ runs[d.id].result /= <<>>
           /\ MetadataOfRow(d) = MetadataOfResult(runs[d.id].result[1])
           /\ d.confidence_score = Some(runs[d.id].result[1].confidence)
           /\ db[d.id] = d

\* a query selected a completed document while another document has its
\* text stored and its metadata still to come
C27_Witness ==
    /\ q.pc \in {"ai", "done"}
    /\ Len(q.documents) > 0
    /\ \E k \in 1..Len(bg) :
           /\ bg[k].pc \in {"extracted", "ai"}
           /\ db[k].processing_status = "processing"
           /\ Text(db[k].content_text) /= ""

\* what a step does to the rows of the documents table
C28_Step ==
    /\ Len(db') >= Len(db)
    /\ \A k \in 1..Len(db') :
           IF k > Len(db) THEN db'[k].processing_status = "pending"
           ELSE LET old == db[k].processing_status
                    new == db'[k].processing_status
                IN /\ old = "pending" => new \in {"pending", "processing"}
                   /\ old = "processing" => new \in {"processing", "completed", "failed"}
                   /\ old \in {"completed", "failed"} => new = old
                   /\ (old /= "completed" /\ new = "completed") =>
                          /\ ProcessDocument(db[k].file_path, disk).success
                          /\ runs[k].text_content /= <<>>
                          /\ db[k].content_text = runs[k].text_content[1]
                          /\ runs'[k].x /= <<>>
                          /\ runs'[k].x[1].pc = "done"
                          /\ runs'[k].result = runs'[k].x[1].result
                          /\ runs'[k].result /= <<>>

\* C28: processing_status only moves forward along pending -> processing
\* -> (completed | failed). A row is created as pending; pending is left
\* for processing only; a completed or failed row keeps its status; and a
\* row becomes completed only from processing, with the text extraction
\* having succeeded and extract_metadata having returned.
C28_StatusMovesForward == [][C28_Step]_vars

\* one document completed, one failed, one still pending
C28_Witness ==
    /\ \E k \in 1..Len(db) : db[k].processing_status = "completed"
    /\ \E k \in 1..Len(db) : db[k].processing_status = "failed"
    /\ \E k \in 1..Len(db) : db[k].processing_status = "pending"

\* the status of document k is completed or failed
Terminal(k) ==
    k \in 1..Len(db) /\ db[k].processing_status \in {"completed", "failed"}

\* C29: Once the background task of an existing document has started (its
\* document found and committed as processing), the document eventually
\* reaches completed or failed, and a task that is over has left its
\* document completed or failed.
C29_ReachesTerminalStatus ==
    /\ [](\A k \in PipelineTasks :
            (k \in 1..Len(bg) /\ bg[k].pc = "exit") => Terminal(k))
    /\ \A k \in PipelineTasks :
           (k \in 1..Len(bg) /\ bg[k].pc = "started") ~> Terminal(k)

\* all three tasks are over: two documents completed, one failed
C29_Witness ==
    /\ Len(bg) = 3
    /\ \A k \in 1..3 : bg[k].pc = "exit"
    /\ \E k \in 1..3 : db[k].processing_status = "failed"
    /\ \E k \in 1..3 : db[k].processing_status = "completed"

====
